---- MODULE Spec2Model ----
(***************************************************************************)
(* A model of the trust-verification core of genesisgraph:                 *)
(*   - RFC6962Verifier and TransparencyLogVerifier (transparency_log.py),  *)
(*   - DIDResolver (did_resolver.py),                                      *)
(*   - GenesisGraphValidator._verify_signature and                         *)
(*     _verify_transparency_anchoring (validator.py).                      *)
(*                                                                         *)
(* The module holds nine specifications over one set of variables; each    *)
(* moves the variables of its component and leaves the others alone:       *)
(*   SpecMerkle    the pure RFC 6962 verifier, applied to drawn inputs     *)
(*   Spec          one DIDResolver instance, a clock and the network       *)
(*   SpecCache     the same, asked also for identifiers it refuses         *)
(*   SpecRace      the same resolver, shared by two threads                *)
(*   SpecInputs    the same resolver, called on every kind of identifier   *)
(*   SpecTrail     the same resolver, with the history of its calls        *)
(*   SpecWitness   verify_multi_witness over lists of entries              *)
(*   SpecEntry     verify_transparency_entry on one entry                  *)
(*   SpecValidator _validate_attestation: signature verification with the  *)
(*                 validator's resolver, and transparency anchoring        *)
(*                                                                         *)
(* SHA-256 is modelled as a free constructor: hash_leaf and hash_children  *)
(* build terms, so two hashes are equal exactly when they were built the   *)
(* same way (no collisions, leaf and node hashes never equal).             *)
(* A Python call either returns or raises; an operator that models one     *)
(* yields the string "True" / "False" or the name of the exception.        *)
(***************************************************************************)
EXTENDS Integers, Sequences, FiniteSets, TLC

VARIABLES
    mk,           \* the last RFC6962Verifier call: its arguments and result
    now,          \* the value time() returns
    cache,        \* DIDResolver._cache: cache_key -> <<value, timestamp>>
    rate_limits,  \* DIDResolver._rate_limits: domain -> list of timestamps
    admitted,     \* history: domain -> times of the requests that passed
                  \* _check_rate_limit during the last RATE_WINDOW seconds
    last,         \* the last resolve_to_public_key call and its outcome
    calls,        \* resolve_to_public_key calls made so far, where counted
    trail,        \* history: the resolve_to_public_key calls made, in order,
                  \* each with the time it was made, where recorded
    callers,      \* the threads that share the resolver: where each one
                  \* stands inside _check_rate_limit, and its local values
    sig,          \* the last _validate_attestation run of the validator
    mw            \* the last verify_multi_witness or verify_transparency_entry
                  \* call and its result

vars == <<mk, now, cache, rate_limits, admitted, last, calls, trail, callers, sig, mw>>

resolverVars == <<now, cache, rate_limits, admitted, last, calls, trail, callers>>

----------------------------------------------------------------------------
(* Bounds of the model *)

\* largest tree the Merkle specification draws
MaxLeaves == 9
\* most leaves appended between the two trees of a consistency proof
MaxAppend == 5

----------------------------------------------------------------------------
(* transparency_log.py: limits *)

\* 2**63 - 1 in the source; TLC's integers are 32 bits wide, so the limit
\* is held at the largest value they carry. Every tree size drawn is far
\* below both.
MAX_TREE_SIZE == 2147483647
MAX_PROOF_NODES == 64

----------------------------------------------------------------------------
(* RFC6962Verifier: hashing *)

\* hashlib.sha256(b'\x00' + data).digest()
hash_leaf(data) == <<"leaf", data>>

\* hashlib.sha256(b'\x01' + left + right).digest()
hash_children(left, right) == <<"node", left, right>>

\* A byte string that is no SHA-256 digest: n bytes, told apart by id.
RawBytes(n, id) == <<"raw", n, id>>

\* len(h) of a byte string
ByteLen(h) == IF h[1] = "raw" THEN h[2] ELSE 32

----------------------------------------------------------------------------
(* RFC6962Verifier.verify_inclusion_proof *)

\* current_index after "current_index //= 2" ran k times
RECURSIVE HalvedTimes(_, _)
HalvedTimes(current_index, k) ==
    IF k = 0 \/ current_index = 0 THEN current_index
    ELSE HalvedTimes(current_index \div 2, k - 1)

\* current_hash after "for proof_node in proof_nodes": the loop over the
\* first half of the nodes, run to its end, then the loop over the rest
RECURSIVE InclusionFold(_, _, _)
InclusionFold(current_hash, current_index, proof_nodes) ==
    IF proof_nodes = <<>> THEN current_hash
    ELSE IF Len(proof_nodes) = 1
         THEN IF current_index % 2 = 0
              THEN hash_children(current_hash, proof_nodes[1])
              ELSE hash_children(proof_nodes[1], current_hash)
    ELSE LET half == Len(proof_nodes) \div 2 IN
         CHOOSE r \in { InclusionFold(mid, HalvedTimes(current_index, half),
                                      SubSeq(proof_nodes, half + 1, Len(proof_nodes))) :
                          mid \in { InclusionFold(current_hash, current_index,
                                                  SubSeq(proof_nodes, 1, half)) } } : TRUE

\* a root that does not match raises instead of returning False
verify_inclusion_proof_raises(leaf_hash, tree_size, leaf_index, proof_nodes, root_hash) ==
    IF leaf_index < 0 \/ leaf_index >= tree_size THEN "InvalidTreeError"
    ELSE IF tree_size <= 0 \/ tree_size > MAX_TREE_SIZE THEN "InvalidTreeError"
    ELSE IF Len(proof_nodes) > MAX_PROOF_NODES THEN "InvalidProofError"
    ELSE IF ByteLen(leaf_hash) # 32 THEN "InvalidProofError"
    ELSE IF ByteLen(root_hash) # 32 THEN "InvalidProofError"
    ELSE IF \E i \in 1..Len(proof_nodes) : ByteLen(proof_nodes[i]) # 32
         THEN "InvalidProofError"
    ELSE IF InclusionFold(leaf_hash, leaf_index, proof_nodes) = root_hash
         THEN "True" ELSE "InvalidProofError"

\* the largest power of two smaller than n (k < n <= 2k); "k < n - k" is
\* "2k < n" written so that no value leaves the integers of the model
RECURSIVE RfcSplitLoop(_, _)
RfcSplitLoop(k, n) == IF k < n - k THEN RfcSplitLoop(k * 2, n) ELSE k

RfcSplit(n) == RfcSplitLoop(1, n)

\* the length of the audit path of leaf m in a tree of n leaves (RFC 6962
\* section 2.1.1): one node for every split on the way down to the leaf
RECURSIVE AuditPathLength(_, _)
AuditPathLength(m, n) ==
    IF n <= 1 THEN 0
    ELSE IF m < RfcSplit(n)
         THEN 1 + AuditPathLength(m, RfcSplit(n))
         ELSE 1 + AuditPathLength(m - RfcSplit(n), n - RfcSplit(n))

\* a proof whose length is not that of the audit path answered with False
verify_inclusion_proof_checks_length(leaf_hash, tree_size, leaf_index, proof_nodes, root_hash) ==
    IF leaf_index < 0 \/ leaf_index >= tree_size THEN "InvalidTreeError"
    ELSE IF tree_size <= 0 \/ tree_size > MAX_TREE_SIZE THEN "InvalidTreeError"
    ELSE IF Len(proof_nodes) > MAX_PROOF_NODES THEN "InvalidProofError"
    ELSE IF ByteLen(leaf_hash) # 32 THEN "InvalidProofError"
    ELSE IF ByteLen(root_hash) # 32 THEN "InvalidProofError"
    ELSE IF \E i \in 1..Len(proof_nodes) : ByteLen(proof_nodes[i]) # 32
         THEN "InvalidProofError"
    ELSE IF Len(proof_nodes) # AuditPathLength(leaf_index, tree_size) THEN "False"
    ELSE IF InclusionFold(leaf_hash, leaf_index, proof_nodes) = root_hash
         THEN "True" ELSE "False"

\* a proof that is too long, or a hash of the wrong length, answered with
\* False instead of an exception
verify_inclusion_proof_returns_false(leaf_hash, tree_size, leaf_index, proof_nodes, root_hash) ==
    IF leaf_index < 0 \/ leaf_index >= tree_size THEN "InvalidTreeError"
    ELSE IF tree_size <= 0 \/ tree_size > MAX_TREE_SIZE THEN "InvalidTreeError"
    ELSE IF Len(proof_nodes) > MAX_PROOF_NODES THEN "False"
    ELSE IF ByteLen(leaf_hash) # 32 THEN "False"
    ELSE IF ByteLen(root_hash) # 32 THEN "False"
    ELSE IF \E i \in 1..Len(proof_nodes) : ByteLen(proof_nodes[i]) # 32
         THEN "False"
    ELSE IF InclusionFold(leaf_hash, leaf_index, proof_nodes) = root_hash
         THEN "True" ELSE "False"

verify_inclusion_proof(leaf_hash, tree_size, leaf_index, proof_nodes, root_hash) ==
    IF leaf_index < 0 \/ leaf_index >= tree_size THEN "InvalidTreeError"
    ELSE IF tree_size <= 0 \/ tree_size > MAX_TREE_SIZE THEN "InvalidTreeError"
    ELSE IF Len(proof_nodes) > MAX_PROOF_NODES THEN "InvalidProofError"
    ELSE IF ByteLen(leaf_hash) # 32 THEN "InvalidProofError"
    ELSE IF ByteLen(root_hash) # 32 THEN "InvalidProofError"
    ELSE IF \E i \in 1..Len(proof_nodes) : ByteLen(proof_nodes[i]) # 32
         THEN "InvalidProofError"
    ELSE IF InclusionFold(leaf_hash, leaf_index, proof_nodes) = root_hash
         THEN "True" ELSE "False"

----------------------------------------------------------------------------
(* RFC6962Verifier.verify_consistency_proof *)

\* _get_power_of_2: the largest power of 2 less than or equal to n
RECURSIVE Pow2Up(_, _)
Pow2Up(k, n) == IF k * 2 <= n THEN Pow2Up(k * 2, n) ELSE k

get_power_of_2(n) == Pow2Up(1, n)

\* _count_bits: the number of bits needed to represent n
RECURSIVE count_bits(_)
count_bits(n) == IF n = 0 THEN 0 ELSE 1 + count_bits(n \div 2)

\* "k = 1; while k * 2 < n1: k *= 2" of _verify_consistency_proof_impl
RECURSIVE SplitLoop(_, _)
SplitLoop(k, n1) == IF k * 2 < n1 THEN SplitLoop(k * 2, n1) ELSE k

SplitK(n1) == SplitLoop(1, n1)

\* what proof[i] yields when i is past the end of the list
IndexErr == <<"IndexError">>

\* the loop of the branch taken when n1 == k (proof[i] is proof[i + 1] here:
\* Python lists count from 0)
RECURSIVE Pow2BranchLoop(_, _, _, _, _, _)
Pow2BranchLoop(i, fn, sn, new_hash, n2, proof) ==
    IF i >= Len(proof) THEN new_hash
    ELSE IF sn = 0
         THEN Pow2BranchLoop(i + 1, fn * 2, sn,
                             hash_children(new_hash, proof[i + 1]), n2, proof)
    ELSE IF fn = get_power_of_2(sn)
         THEN Pow2BranchLoop(i + 1, fn + sn, n2 - (fn + sn),
                             hash_children(new_hash, proof[i + 1]), n2, proof)
    ELSE Pow2BranchLoop(i + 1, fn, sn - get_power_of_2(sn),
                        hash_children(proof[i + 1], new_hash), n2, proof)

\* "for i in range(1, b): old_hash = hash_children(proof[i], old_hash)"
RECURSIVE OldHashLoop(_, _, _, _)
OldHashLoop(i, b, old_hash, proof) ==
    IF i >= b THEN old_hash
    ELSE IF i >= Len(proof) THEN IndexErr
    ELSE OldHashLoop(i + 1, b, hash_children(proof[i + 1], old_hash), proof)

\* the loop that rebuilds the new root when n1 is not k
RECURSIVE NewHashLoop(_, _, _, _, _, _)
NewHashLoop(i, fn, sn, new_hash, n2, proof) ==
    IF i >= Len(proof) \/ fn = n2 THEN new_hash
    ELSE IF sn = 0
         THEN NewHashLoop(i + 1, fn * 2, sn,
                          hash_children(new_hash, proof[i + 1]), n2, proof)
    ELSE LET sn_power == get_power_of_2(sn) IN
         IF fn + sn_power <= n2
         THEN NewHashLoop(i + 1, fn + sn_power, sn - sn_power,
                          hash_children(new_hash, proof[i + 1]), n2, proof)
         ELSE NewHashLoop(i + 1, fn, n2 - fn,
                          hash_children(proof[i + 1], new_hash), n2, proof)

\* the rebuilt roots compared with either of the two roots given
verify_consistency_proof_impl_either_root(n1, n2, hash1, hash2, proof) ==
    IF n1 = n2 THEN (IF hash1 = hash2 /\ Len(proof) = 0 THEN "True" ELSE "False")
    ELSE IF n1 = 0 THEN "True"
    ELSE LET k == SplitK(n1) IN
         IF n1 = k
         THEN IF Len(proof) = 0 THEN "False"
              ELSE IF proof[1] \notin {hash1, hash2} THEN "False"
              ELSE IF Pow2BranchLoop(1, k, n1 - k, proof[1], n2, proof) \in {hash1, hash2}
                   THEN "True" ELSE "False"
         ELSE IF Len(proof) = 0 THEN "False"
              ELSE LET old_hash == OldHashLoop(1, count_bits(n1 - 1), proof[1], proof) IN
                   IF old_hash = IndexErr THEN "IndexError"
                   ELSE IF old_hash \notin {hash1, hash2} THEN "False"
                   ELSE IF NewHashLoop(1, k, n1 - k, proof[1], n2, proof) \in {hash1, hash2}
                        THEN "True" ELSE "False"

verify_consistency_proof_impl(n1, n2, hash1, hash2, proof) ==
    IF n1 = n2 THEN (IF hash1 = hash2 /\ Len(proof) = 0 THEN "True" ELSE "False")
    ELSE IF n1 = 0 THEN "True"
    ELSE LET k == SplitK(n1) IN
         IF n1 = k
         THEN IF Len(proof) = 0 THEN "False"
              ELSE IF hash1 # proof[1] THEN "False"
              ELSE IF Pow2BranchLoop(1, k, n1 - k, proof[1], n2, proof) = hash2
                   THEN "True" ELSE "False"
         ELSE IF Len(proof) = 0 THEN "False"
              ELSE LET old_hash == OldHashLoop(1, count_bits(n1 - 1), proof[1], proof) IN
                   IF old_hash = IndexErr THEN "IndexError"
                   ELSE IF old_hash # hash1 THEN "False"
                   ELSE IF NewHashLoop(1, k, n1 - k, proof[1], n2, proof) = hash2
                        THEN "True" ELSE "False"

\* the length of the proof checked before the special cases
verify_consistency_proof_length_first(tree_size_1, tree_size_2, root_hash_1, root_hash_2, proof_nodes) ==
    IF tree_size_1 < 0 \/ tree_size_1 > MAX_TREE_SIZE THEN "InvalidTreeError"
    ELSE IF tree_size_2 < 0 \/ tree_size_2 > MAX_TREE_SIZE THEN "InvalidTreeError"
    ELSE IF tree_size_1 > tree_size_2 THEN "InvalidTreeError"
    ELSE IF ByteLen(root_hash_1) # 32 \/ ByteLen(root_hash_2) # 32
         THEN "InvalidProofError"
    ELSE IF Len(proof_nodes) > MAX_PROOF_NODES THEN "InvalidProofError"
    ELSE IF tree_size_1 = tree_size_2
         THEN IF Len(proof_nodes) # 0 THEN "InvalidProofError"
              ELSE IF root_hash_1 = root_hash_2 THEN "True" ELSE "False"
    ELSE IF tree_size_1 = 0 THEN "True"
    ELSE verify_consistency_proof_impl(tree_size_1, tree_size_2,
                                       root_hash_1, root_hash_2, proof_nodes)

verify_consistency_proof(tree_size_1, tree_size_2, root_hash_1, root_hash_2, proof_nodes) ==
    IF tree_size_1 < 0 \/ tree_size_1 > MAX_TREE_SIZE THEN "InvalidTreeError"
    ELSE IF tree_size_2 < 0 \/ tree_size_2 > MAX_TREE_SIZE THEN "InvalidTreeError"
    ELSE IF tree_size_1 > tree_size_2 THEN "InvalidTreeError"
    ELSE IF ByteLen(root_hash_1) # 32 \/ ByteLen(root_hash_2) # 32
         THEN "InvalidProofError"
    ELSE IF tree_size_1 = tree_size_2
         THEN IF Len(proof_nodes) # 0 THEN "InvalidProofError"
              ELSE IF root_hash_1 = root_hash_2 THEN "True" ELSE "False"
    ELSE IF tree_size_1 = 0 THEN "True"
    ELSE IF Len(proof_nodes) > MAX_PROOF_NODES THEN "InvalidProofError"
    ELSE verify_consistency_proof_impl(tree_size_1, tree_size_2,
                                       root_hash_1, root_hash_2, proof_nodes)

----------------------------------------------------------------------------
(* The honest log of RFC 6962 section 2.1: the tree hash MTH, the audit    *)
(* path PATH(m, D) and the consistency proof of m leaves against D. The    *)
(* repository holds only the verifier; its docstrings name these sections  *)
(* as the algorithms verified, and its tests build the 1-, 2- and 4-leaf   *)
(* cases by hand.                                                          *)

RECURSIVE MTH(_)
MTH(D) ==
    IF Len(D) = 1 THEN hash_leaf(D[1])
    ELSE LET k == RfcSplit(Len(D)) IN
         hash_children(MTH(SubSeq(D, 1, k)), MTH(SubSeq(D, k + 1, Len(D))))

\* the audit path of the leaf with 0-based index m
RECURSIVE PATH(_, _)
PATH(m, D) ==
    IF Len(D) = 1 THEN <<>>
    ELSE LET k == RfcSplit(Len(D)) IN
         IF m < k
         THEN Append(PATH(m, SubSeq(D, 1, k)), MTH(SubSeq(D, k + 1, Len(D))))
         ELSE Append(PATH(m - k, SubSeq(D, k + 1, Len(D))), MTH(SubSeq(D, 1, k)))

RECURSIVE SUBPROOF(_, _, _)
SUBPROOF(m, D, b) ==
    IF m = Len(D) THEN (IF b THEN <<>> ELSE <<MTH(D)>>)
    ELSE LET k == RfcSplit(Len(D)) IN
         IF m <= k
         THEN Append(SUBPROOF(m, SubSeq(D, 1, k), b), MTH(SubSeq(D, k + 1, Len(D))))
         ELSE Append(SUBPROOF(m - k, SubSeq(D, k + 1, Len(D)), FALSE),
                     MTH(SubSeq(D, 1, k)))

\* the consistency proof between the first m leaves of D and D
RfcConsistencyProof(m, D) == SUBPROOF(m, D, TRUE)

\* the leaves of a log of n entries: all different, or all the same bytes
LeafPatterns == {"distinct", "equal"}

Leaves(n, pattern) == [j \in 1..n |-> IF pattern = "distinct" THEN j ELSE 0]

----------------------------------------------------------------------------
(* SpecMerkle: one call of the verifier, on arguments drawn for it *)

MerkleIdle == [op |-> "none"]

\* verify_inclusion_proof on the honest audit path of leaf leaf_index
HonestInclusion ==
    /\ mk = MerkleIdle
    /\ \E n \in 1..MaxLeaves, i \in 0..(MaxLeaves - 1), pattern \in LeafPatterns :
        /\ i < n
        /\ LET D == Leaves(n, pattern) IN
           mk' = [op |-> "inclusion", tree_size |-> n, leaf_index |-> i,
                  pattern |-> pattern,
                  proof |-> PATH(i, D), root |-> MTH(D),
                  result |-> verify_inclusion_proof(hash_leaf(D[i + 1]), n, i,
                                                    PATH(i, D), MTH(D))]
        /\ UNCHANGED <<resolverVars, sig, mw>>

\* verify_consistency_proof on the honest proof between a log of n1 entries
\* and the same log with m entries appended
HonestConsistency ==
    /\ mk = MerkleIdle
    /\ \E n1 \in 1..MaxLeaves, m \in 1..MaxAppend, pattern \in LeafPatterns :
        /\ LET D == Leaves(n1 + m, pattern)
               D1 == SubSeq(D, 1, n1) IN
           mk' = [op |-> "consistency", tree_size_1 |-> n1, tree_size_2 |-> n1 + m,
                  pattern |-> pattern,
                  proof |-> RfcConsistencyProof(n1, D), root_1 |-> MTH(D1), root_2 |-> MTH(D),
                  result |-> verify_consistency_proof(n1, n1 + m, MTH(D1), MTH(D),
                                                      RfcConsistencyProof(n1, D))]
        /\ UNCHANGED <<resolverVars, sig, mw>>

\* proof with its node at position j (from 1) replaced by h
ReplaceNode(proof, j, h) == [proof EXCEPT ![j] = h]

\* the 32-byte values put in the place of a proof node or of the root: a
\* digest of data outside the log (the logs drawn hold the leaves 0, 1, 2,
\* ...), the digest of the first leaf, the root of the log, and a node built
\* from the last two
Replacements(D) ==
    { hash_leaf(-1),
      hash_leaf(D[1]),
      MTH(D),
      hash_children(MTH(D), hash_leaf(D[1])) }

\* the record of a verify_inclusion_proof call on a proof made from the honest one
TamperedCall(n, i, leaf_hash, proof, root, honest_proof, honest_root, at) ==
    [op |-> "tampered_inclusion", tree_size |-> n, leaf_index |-> i, at |-> at,
     proof |-> proof, root |-> root,
     honest |-> verify_inclusion_proof(leaf_hash, n, i, honest_proof, honest_root),
     result |-> verify_inclusion_proof(leaf_hash, n, i, proof, root)]

\* verify_inclusion_proof on the honest audit path with one node (at >= 1),
\* or the root (at = 0), replaced by a different 32-byte value
TamperedInclusion ==
    /\ mk = MerkleIdle
    /\ \E n \in 1..MaxLeaves, i \in 0..(MaxLeaves - 1), pattern \in LeafPatterns,
       at \in 0..MaxLeaves :
        /\ i < n
        /\ at <= Len(PATH(i, Leaves(n, pattern)))
        /\ \E h \in Replacements(Leaves(n, pattern)) :
              /\ h # (IF at = 0 THEN MTH(Leaves(n, pattern))
                      ELSE PATH(i, Leaves(n, pattern))[at])
              /\ mk' = TamperedCall(n, i, hash_leaf(Leaves(n, pattern)[i + 1]),
                                    IF at = 0 THEN PATH(i, Leaves(n, pattern))
                                    ELSE ReplaceNode(PATH(i, Leaves(n, pattern)), at, h),
                                    IF at = 0 THEN h ELSE MTH(Leaves(n, pattern)),
                                    PATH(i, Leaves(n, pattern)), MTH(Leaves(n, pattern)), at)
        /\ UNCHANGED <<resolverVars, sig, mw>>

\* the record of a verify_consistency_proof call with the two roots exchanged
SwappedCall(n1, n2, root_1, root_2, proof) ==
    [op |-> "swapped_consistency", tree_size_1 |-> n1, tree_size_2 |-> n2,
     proof |-> proof, root_1 |-> root_1, root_2 |-> root_2,
     honest |-> verify_consistency_proof(n1, n2, root_1, root_2, proof),
     result |-> verify_consistency_proof(n1, n2, root_2, root_1, proof)]

\* verify_consistency_proof on the honest proof between a log of n1 entries
\* and the same log with m entries appended, old and new root exchanged
SwappedConsistency ==
    /\ mk = MerkleIdle
    /\ \E n1 \in 1..MaxLeaves, m \in 1..MaxAppend, pattern \in LeafPatterns :
        /\ mk' = SwappedCall(n1, n1 + m,
                             MTH(SubSeq(Leaves(n1 + m, pattern), 1, n1)),
                             MTH(Leaves(n1 + m, pattern)),
                             RfcConsistencyProof(n1, Leaves(n1 + m, pattern)))
        /\ UNCHANGED <<resolverVars, sig, mw>>

\* the arguments a caller may hand to verify_inclusion_proof: indexes and
\* sizes around the limits, hashes of 31, 32 and 33 bytes, proofs of up to
\* MAX_PROOF_NODES + 1 nodes
CallIndexes == {-1, 0, 1, 2}

CallSizes == {-1, 0, 1, 2, 3, MAX_TREE_SIZE}

LeafA == hash_leaf(0)
LeafB == hash_leaf(1)

CallHashes == {LeafA, hash_children(LeafA, LeafB), RawBytes(31, "short"), RawBytes(33, "long")}

CallProofs ==
    { <<>>, <<LeafB>>, <<LeafB, LeafA>>, <<RawBytes(31, "short")>>,
      <<LeafB, RawBytes(33, "long")>>,
      [j \in 1..MAX_PROOF_NODES |-> LeafB], [j \in 1..(MAX_PROOF_NODES + 1) |-> LeafB] }

\* verify_inclusion_proof with a tree_size above MAX_TREE_SIZE, a value the
\* integers of the model do not reach: "leaf_index >= tree_size" is false
\* for every index drawn, and either "leaf_index < 0" or
\* "tree_size > MAX_TREE_SIZE" raises InvalidTreeError
verify_inclusion_proof_oversize(leaf_index) ==
    IF leaf_index < 0 THEN "InvalidTreeError" ELSE "InvalidTreeError"

\* verify_inclusion_proof on arguments that need not satisfy its
\* preconditions; oversize: the tree size is MAX_TREE_SIZE + 1
InclusionCall ==
    /\ mk = MerkleIdle
    /\ \E leaf_hash \in CallHashes, n \in CallSizes, i \in CallIndexes,
       proof \in CallProofs, root \in CallHashes, oversize \in BOOLEAN :
        /\ oversize => n = MAX_TREE_SIZE
        /\ mk' = [op |-> "inclusion_call", leaf_hash |-> leaf_hash, tree_size |-> n,
                  oversize |-> oversize, leaf_index |-> i, proof |-> proof, root |-> root,
                  result |-> IF oversize THEN verify_inclusion_proof_oversize(i)
                             ELSE verify_inclusion_proof(leaf_hash, n, i, proof, root)]
        /\ UNCHANGED <<resolverVars, sig, mw>>

\* verify_consistency_proof on the sizes of its special cases and on sizes
\* it refuses: equal sizes, an empty first tree, a first tree larger than
\* the second, a negative size
ConsistencyCall ==
    /\ mk = MerkleIdle
    /\ \E n1 \in CallSizes, n2 \in CallSizes, root_1 \in CallHashes,
          root_2 \in CallHashes, proof \in CallProofs :
        /\ n1 >= n2 \/ n1 <= 0
        /\ mk' = [op |-> "consistency_call", tree_size_1 |-> n1, tree_size_2 |-> n2,
                  root_1 |-> root_1, root_2 |-> root_2, proof |-> proof,
                  result |-> verify_consistency_proof(n1, n2, root_1, root_2, proof)]
        /\ UNCHANGED <<resolverVars, sig, mw>>

\* a tree size far above every log drawn
LargeTree == 1000

\* the proofs offered for leaf i of the log D: its audit path, no proof at
\* all, the path without its last node, the path with one node more
OfferedProofs(i, D) ==
    { PATH(i, D), <<>>, SubSeq(PATH(i, D), 1, Len(PATH(i, D)) - 1),
      Append(PATH(i, D), hash_leaf(-1)) }

\* the record of two verify_inclusion_proof calls that differ in tree_size
\* only; path_length is the length of the audit path of the first
SizesCall(leaf_hash, i, proof, root, size, other_size) ==
    [op |-> "inclusion_sizes", leaf_hash |-> leaf_hash, leaf_index |-> i,
     proof |-> proof, root |-> root, tree_size |-> size, other_size |-> other_size,
     path_length |-> AuditPathLength(i, size),
     result |-> verify_inclusion_proof(leaf_hash, size, i, proof, root),
     other_result |-> verify_inclusion_proof(leaf_hash, other_size, i, proof, root)]

\* verify_inclusion_proof for leaf i of a log of n entries, called with two
\* tree sizes above i, on one of the proofs offered and on the root of the
\* log, the leaf hash itself, or the value the proof folds to
InclusionTwoSizes ==
    /\ mk = MerkleIdle
    /\ \E n \in 1..MaxLeaves, i \in 0..(MaxLeaves - 1), pattern \in LeafPatterns :
        /\ i < n
        /\ \E proof \in OfferedProofs(i, Leaves(n, pattern)),
              size \in {i + 1, n, n + 1, LargeTree},
              other_size \in {i + 1, n, n + 1, LargeTree} :
              \E root \in { MTH(Leaves(n, pattern)), hash_leaf(Leaves(n, pattern)[i + 1]),
                            InclusionFold(hash_leaf(Leaves(n, pattern)[i + 1]), i, proof) } :
                  mk' = SizesCall(hash_leaf(Leaves(n, pattern)[i + 1]), i, proof, root,
                                  size, other_size)
        /\ UNCHANGED <<resolverVars, sig, mw>>

----------------------------------------------------------------------------
(* did_resolver.py: constants *)

ED25519_MULTICODEC_PREFIX == 237
ED25519_MULTICODEC_SUFFIX == 1
ED25519_KEY_LENGTH == 32
MIN_DECODED_LENGTH == 2
MAX_BASE58_LENGTH == 128
MAX_DID_LENGTH == 512
\* "minute_ago = now - 60" of _check_rate_limit
RATE_WINDOW == 60

BLOCKED_HOSTS ==
    {"localhost", "127.0.0.1", "0.0.0.0", "169.254.169.254", "::1", "::ffff:127.0.0.1"}

\* each network as <<version, address, prefix length>>; an IPv4 address is its
\* four octets, an IPv6 address its eight 16-bit groups
BLOCKED_NETWORKS ==
    << <<4, <<10, 0, 0, 0>>, 8>>,
       <<4, <<172, 16, 0, 0>>, 12>>,
       <<4, <<192, 168, 0, 0>>, 16>>,
       <<4, <<169, 254, 0, 0>>, 16>>,
       <<4, <<127, 0, 0, 0>>, 8>>,
       <<6, <<64512, 0, 0, 0, 0, 0, 0, 0>>, 7>>,
       <<6, <<65152, 0, 0, 0, 0, 0, 0, 0>>, 10>>,
       <<6, <<0, 0, 0, 0, 0, 0, 0, 1>>, 128>> >>

\* the resolver modelled: DIDResolver(cache_ttl=90, rate_limit=2)
cache_ttl == 90
rate_limit_max == 2

----------------------------------------------------------------------------
(* What a call yields: a value returned, or an exception raised *)

Ok(v) == [exc |-> "none", why |-> "returned", value |-> v]

Raise(e, why) == [exc |-> e, why |-> why, value |-> <<>>]

----------------------------------------------------------------------------
(* DIDResolver._base58_decode. A base58 string is the sequence of the      *)
(* positions of its characters in the Bitcoin alphabet (0 for '1', 57 for  *)
(* 'z'); a character outside the alphabet is a number above 57. The big    *)
(* integer num is held as its bytes, least significant first.              *)

\* the bytes of a carry, least significant first
RECURSIVE CarryBytes(_)
CarryBytes(carry) ==
    IF carry = 0 THEN <<>> ELSE <<carry % 256>> \o CarryBytes(carry \div 256)

\* le * 58 + carry on the bytes le, as the bytes of the same length and the
\* carry out of them: the low half of the bytes first, then, with the carry
\* out of it, the high half
RECURSIVE MulAddBytes(_, _)
MulAddBytes(le, carry) ==
    IF le = <<>> THEN [bytes |-> <<>>, carry |-> carry]
    ELSE IF Len(le) = 1
         THEN [bytes |-> <<(le[1] * 58 + carry) % 256>>,
               carry |-> (le[1] * 58 + carry) \div 256]
    ELSE LET half == Len(le) \div 2 IN
         CHOOSE r \in UNION {
             { [bytes |-> low.bytes \o high.bytes, carry |-> high.carry] :
                 high \in { MulAddBytes(SubSeq(le, half + 1, Len(le)), low.carry) } } :
             low \in { MulAddBytes(SubSeq(le, 1, half), carry) } } : TRUE

\* num = num * 58 + carry, on the little-endian bytes of num
MulAdd58(le, carry) ==
    LET r == MulAddBytes(le, carry) IN r.bytes \o CarryBytes(r.carry)

\* num after "for char in s: num = num * 58 + ALPHABET.index(char)": the
\* loop over the first half of s, run to its end, then the loop over the rest
RECURSIVE Base58Num(_, _)
Base58Num(s, num) ==
    IF s = <<>> THEN num
    ELSE IF Len(s) = 1 THEN MulAdd58(num, s[1])
    ELSE LET half == Len(s) \div 2 IN
         CHOOSE r \in { Base58Num(SubSeq(s, half + 1, Len(s)), mid) :
                          mid \in { Base58Num(SubSeq(s, 1, half), num) } } : TRUE

Reverse(s) == [j \in 1..Len(s) |-> s[Len(s) + 1 - j]]

\* len(s) - len(s.lstrip('1'))
RECURSIVE LeadingOnes(_)
LeadingOnes(s) == IF s # <<>> /\ Head(s) = 0 THEN 1 + LeadingOnes(Tail(s)) ELSE 0

\* num.bit_length() of the number whose big-endian bytes are be
BitLength(be) == IF be = <<>> THEN 0 ELSE 8 * (Len(be) - 1) + count_bits(be[1])

Zeros(n) == [j \in 1..n |-> 0]

base58_decode(s) ==
    IF Len(s) > MAX_BASE58_LENGTH THEN Raise("ValueError", "base58 too long")
    ELSE IF \E j \in 1..Len(s) : s[j] > 57 THEN Raise("ValueError", "invalid base58 character")
    ELSE LET be == Reverse(Base58Num(s, <<>>)) IN
         IF BitLength(be) > 1024 THEN Raise("ValueError", "decoded value too large")
         ELSE Ok(Zeros(LeadingOnes(s)) \o be)

----------------------------------------------------------------------------
(* base64.urlsafe_b64decode of the JWK x coordinate, after the padding the *)
(* code adds. A base64url string is the sequence of its 6-bit values.      *)

\* byte k of the decoded bytes: group (k - 1) \div 3 of four characters
\* gives three bytes, a last group of three characters two, of two one
B64Byte(x, k) ==
    LET g == 4 * ((k - 1) \div 3) IN
    CASE (k - 1) % 3 = 0 -> x[g + 1] * 4 + (x[g + 2] \div 16)
      [] (k - 1) % 3 = 1 -> (x[g + 2] % 16) * 16 + (x[g + 3] \div 4)
      [] (k - 1) % 3 = 2 -> (x[g + 3] % 4) * 64 + x[g + 4]

B64Groups(x) ==
    LET rest == Len(x) % 4
        n == 3 * (Len(x) \div 4) + (IF rest = 3 THEN 2 ELSE IF rest = 2 THEN 1 ELSE 0)
    IN [k \in 1..n |-> B64Byte(x, k)]

\* x_b64 += '=' * (4 - len(x_b64) % 4); base64.urlsafe_b64decode(x_b64)
jwk_x_decode(x) ==
    IF Len(x) % 4 = 1 THEN Raise("binascii.Error", "invalid base64 length")
    ELSE Ok(B64Groups(x))

----------------------------------------------------------------------------
(* DIDResolver._resolve_did_key. did.mb is did[8:], the multibase string,  *)
(* as base58 character positions.                                          *)

\* f"{b:02x}"
HEX_DIGITS == <<"0", "1", "2", "3", "4", "5", "6", "7", "8", "9",
                "a", "b", "c", "d", "e", "f">>
Hex02(b) == HEX_DIGITS[(b \div 16) + 1] \o HEX_DIGITS[(b % 16) + 1]

\* f"Unsupported key type in did:key. Expected Ed25519 (0xed01), "
\* f"got 0x{decoded[0]:02x}{decoded[1]:02x}"
UnsupportedKeyType(decoded) ==
    "Unsupported key type in did:key. Expected Ed25519 (0xed01), got 0x"
        \o Hex02(decoded[1]) \o Hex02(decoded[2])

resolve_did_key(did) ==
    LET multibase_key == did.mb IN
    IF multibase_key = <<>> THEN Raise("IndexError", "multibase_key[0]")
    ELSE IF multibase_key[1] # 57
         THEN Raise("ValidationError", "unsupported multibase encoding")
    ELSE LET d == base58_decode(Tail(multibase_key)) IN
         IF d.exc # "none" THEN Raise("ValidationError", "failed to decode did:key")
         ELSE LET decoded == d.value IN
              IF Len(decoded) < MIN_DECODED_LENGTH
              THEN Raise("ValidationError", "did:key too short")
              ELSE IF decoded[1] # ED25519_MULTICODEC_PREFIX
                      \/ decoded[2] # ED25519_MULTICODEC_SUFFIX
                   THEN Raise("ValidationError", UnsupportedKeyType(decoded))
              ELSE LET key_start == MIN_DECODED_LENGTH
                       key_end == key_start + ED25519_KEY_LENGTH
                       \* decoded[key_start:key_end]
                       public_key == SubSeq(decoded, key_start + 1,
                                            IF key_end < Len(decoded)
                                            THEN key_end ELSE Len(decoded))
                   IN IF Len(public_key) # ED25519_KEY_LENGTH
                      THEN Raise("ValidationError", "invalid Ed25519 key length")
                      ELSE Ok(public_key)

----------------------------------------------------------------------------
(* DIDResolver._is_blocked_host *)

\* domain.lower(), for the host names the model draws
Lower(domain) == IF domain = "LOCALHOST" THEN "localhost" ELSE domain

\* ipaddress.ip_address(domain) for the host names the model draws:
\* <<version, address>>, or <<0, <<>>>> where Python raises ValueError
ip_address(domain) ==
    CASE domain = "127.0.0.1"       -> <<4, <<127, 0, 0, 1>>>>
      [] domain = "127.0.0.2"       -> <<4, <<127, 0, 0, 2>>>>
      [] domain = "0.0.0.0"         -> <<4, <<0, 0, 0, 0>>>>
      [] domain = "169.254.169.254" -> <<4, <<169, 254, 169, 254>>>>
      [] domain = "10.0.0.5"        -> <<4, <<10, 0, 0, 5>>>>
      [] domain = "172.31.255.1"    -> <<4, <<172, 31, 255, 1>>>>
      [] domain = "172.32.0.1"      -> <<4, <<172, 32, 0, 1>>>>
      [] domain = "192.168.1.1"     -> <<4, <<192, 168, 1, 1>>>>
      [] domain = "93.184.216.34"   -> <<4, <<93, 184, 216, 34>>>>
      [] domain = "::1"             -> <<6, <<0, 0, 0, 0, 0, 0, 0, 1>>>>
      [] domain = "fe80::1"         -> <<6, <<65152, 0, 0, 0, 0, 0, 0, 1>>>>
      [] OTHER                      -> <<0, <<>>>>

RECURSIVE Pow2(_)
Pow2(n) == IF n = 0 THEN 1 ELSE 2 * Pow2(n - 1)

\* whether the first `bits` bits of a and b agree; every part is `width` bits
RECURSIVE SamePrefix(_, _, _, _)
SamePrefix(a, b, bits, width) ==
    IF bits <= 0 THEN TRUE
    ELSE IF bits >= width
         THEN Head(a) = Head(b) /\ SamePrefix(Tail(a), Tail(b), bits - width, width)
    ELSE Head(a) \div Pow2(width - bits) = Head(b) \div Pow2(width - bits)

\* "ip in network": False when the versions differ
InNetwork(ip, network) ==
    /\ ip[1] = network[1]
    /\ SamePrefix(ip[2], network[2], network[3], IF ip[1] = 4 THEN 8 ELSE 16)

\* the host names checked, the networks forgotten
is_blocked_host_names_only(domain) == Lower(domain) \in BLOCKED_HOSTS

is_blocked_host(domain) ==
    IF Lower(domain) \in BLOCKED_HOSTS THEN TRUE
    ELSE LET ip == ip_address(domain) IN
         ip[1] # 0 /\ \E j \in 1..Len(BLOCKED_NETWORKS) : InNetwork(ip, BLOCKED_NETWORKS[j])

----------------------------------------------------------------------------
(* DIDResolver._check_rate_limit: the new list of the domain, and whether  *)
(* the request passed                                                      *)

\* [t for t in self._rate_limits[domain] if t > minute_ago]
Younger(times, minute_ago) == SelectSeq(times, LAMBDA t : t > minute_ago)

RateList(limits, domain) == IF domain \in DOMAIN limits THEN limits[domain] ELSE <<>>

\* the limit compared with > instead of >=
check_rate_limit_off_by_one(limits, domain, t) ==
    LET minute_ago == t - RATE_WINDOW
        cleaned == Younger(RateList(limits, domain), minute_ago)
    IN IF Len(cleaned) > rate_limit_max
       THEN [passed |-> FALSE, limits |-> (domain :> cleaned) @@ limits]
       ELSE [passed |-> TRUE, limits |-> (domain :> Append(cleaned, t)) @@ limits]

\* the timestamp appended whatever the check says
check_rate_limit_records_rejected(limits, domain, t) ==
    LET minute_ago == t - RATE_WINDOW
        cleaned == Younger(RateList(limits, domain), minute_ago)
    IN [passed |-> Len(cleaned) < rate_limit_max,
        limits |-> (domain :> Append(cleaned, t)) @@ limits]

check_rate_limit(limits, domain, t) ==
    LET minute_ago == t - RATE_WINDOW
        cleaned == Younger(RateList(limits, domain), minute_ago)
    IN IF Len(cleaned) >= rate_limit_max
       THEN [passed |-> FALSE, limits |-> (domain :> cleaned) @@ limits]
       ELSE [passed |-> TRUE, limits |-> (domain :> Append(cleaned, t)) @@ limits]

----------------------------------------------------------------------------
(* DIDResolver._extract_public_key_from_document. A verification method is *)
(* a record: id (a list of tokens, the last one the fragment), type, the   *)
(* set of key fields it carries, and their values.                         *)

KEY_TYPES == {"Ed25519VerificationKey2018", "Ed25519VerificationKey2020", "JsonWebKey2020"}

\* method_id == key_id or method_id.endswith(key_id)
IdMatches(method_id, key_id) ==
    method_id = <<key_id>> \/ (method_id # <<>> /\ method_id[Len(method_id)] = key_id)

ExtractFromMethod(method) ==
    IF method.type \notin KEY_TYPES THEN Raise("ValidationError", "unsupported key type")
    ELSE IF "publicKeyBase58" \in method.fields
         THEN base58_decode(method.publicKeyBase58)
    ELSE IF "publicKeyMultibase" \in method.fields
         THEN IF method.publicKeyMultibase = <<>> THEN Raise("IndexError", "multibase[0]")
              ELSE IF method.publicKeyMultibase[1] = 57
                   THEN base58_decode(Tail(method.publicKeyMultibase))
              ELSE Raise("ValidationError", "unsupported multibase encoding")
    ELSE IF "publicKeyJwk" \in method.fields
         THEN IF method.publicKeyJwk.kty # "OKP" \/ method.publicKeyJwk.crv # "Ed25519"
              THEN Raise("ValidationError", "unsupported JWK key type")
              ELSE jwk_x_decode(method.publicKeyJwk.x)
    ELSE Raise("ValidationError", "no supported public key format")

RECURSIVE extract_public_key_from_document(_, _)
extract_public_key_from_document(verification_methods, key_id) ==
    IF verification_methods = <<>> THEN Raise("ValidationError", "key not found")
    ELSE IF IdMatches(Head(verification_methods).id, key_id)
         THEN ExtractFromMethod(Head(verification_methods))
    ELSE extract_public_key_from_document(Tail(verification_methods), key_id)

----------------------------------------------------------------------------
(* DIDResolver._resolve_did_web. did.segs is did.split(':'); resp is what  *)
(* requests.get finds on the network.                                      *)

\* None, or any other falsy key_id
NoKeyId == ""

\* what requests.get and response.raise_for_status raise, each a
\* requests.RequestException: a network error, a timeout, an error status
REQUEST_EXCEPTIONS == {"RequestException", "Timeout", "HTTPError"}

\* a timeout answered with an empty key instead of an error
FetchResult_timeout_swallowed(resp, key_id) ==
    IF resp.status = "Timeout" THEN Ok(<<>>)
    ELSE IF resp.status \in REQUEST_EXCEPTIONS THEN Raise("ValidationError", "fetch failed")
    ELSE IF resp.status = "bad_content_type" THEN Raise("ValidationError", "invalid content type")
    ELSE IF resp.status = "too_large" THEN Raise("ValidationError", "response too large")
    ELSE IF resp.status = "invalid_json" THEN Raise("ValidationError", "invalid JSON")
    ELSE extract_public_key_from_document(resp.doc,
                                          IF key_id # NoKeyId THEN key_id ELSE "#keys-1")

\* the outcome of requests.get(url) and of the checks on the response
FetchResult(resp, key_id) ==
    IF resp.status \in REQUEST_EXCEPTIONS THEN Raise("ValidationError", "fetch failed")
    ELSE IF resp.status = "bad_content_type" THEN Raise("ValidationError", "invalid content type")
    ELSE IF resp.status = "too_large" THEN Raise("ValidationError", "response too large")
    ELSE IF resp.status = "invalid_json" THEN Raise("ValidationError", "invalid JSON")
    ELSE extract_public_key_from_document(resp.doc,
                                          IF key_id # NoKeyId THEN key_id ELSE "#keys-1")

\* the document fetched first, the rate limit enforced on the way back
resolve_did_web_fetch_before_limit(did, key_id, resp, limits, t) ==
    LET domain == did.segs[3] IN
    IF is_blocked_host(domain)
    THEN [result |-> Raise("ValidationError", "blocked host"), limits |-> limits,
          fetched |-> 0, passed |-> FALSE, domain |-> domain]
    ELSE LET rl == check_rate_limit(limits, domain, t) IN
         IF ~rl.passed
         THEN [result |-> Raise("ValidationError", "rate limit exceeded"),
               limits |-> rl.limits, fetched |-> 1, passed |-> FALSE, domain |-> domain]
         ELSE [result |-> FetchResult(resp, key_id), limits |-> rl.limits,
               fetched |-> 1, passed |-> TRUE, domain |-> domain]

resolve_did_web(did, key_id, resp, limits, t) ==
    LET domain == did.segs[3] IN
    IF is_blocked_host(domain)
    THEN [result |-> Raise("ValidationError", "blocked host"), limits |-> limits,
          fetched |-> 0, passed |-> FALSE, domain |-> domain]
    ELSE LET rl == check_rate_limit(limits, domain, t) IN
         IF ~rl.passed
         THEN [result |-> Raise("ValidationError", "rate limit exceeded"),
               limits |-> rl.limits, fetched |-> 0, passed |-> FALSE, domain |-> domain]
         ELSE [result |-> FetchResult(resp, key_id), limits |-> rl.limits,
               fetched |-> 1, passed |-> TRUE, domain |-> domain]

----------------------------------------------------------------------------
(* DIDResolver.resolve_to_public_key *)

\* f"{did}#{key_id}" if key_id else did
CacheKey(did, key_id) == IF key_id # NoKeyId THEN did.text \o "#" \o key_id ELSE did.text

Without(f, k) == [x \in DOMAIN f \ {k} |-> f[x]]

\* the call from the method dispatch on: no fresh cache entry answered it
Dispatch(did, key_id, resp, c, limits, t) ==
    LET none == [limits |-> limits, fetched |-> 0, passed |-> FALSE, domain |-> ""] IN
    IF ~(Len(did.segs) >= 2 /\ did.segs[1] = "did")
    THEN [result |-> Raise("ValidationError", "invalid DID format")] @@ none
    ELSE IF Len(did.segs) < 3
         THEN [result |-> Raise("ValidationError", "invalid DID format")] @@ none
    ELSE IF did.segs[2] = "key" THEN [result |-> resolve_did_key(did)] @@ none
    ELSE IF did.segs[2] = "web" THEN resolve_did_web(did, key_id, resp, limits, t)
    ELSE [result |-> Raise("ValidationError", "unsupported DID method")] @@ none

\* t is time() at the cache check and at the rate-limit check, t_store is
\* time() when the result is cached; hit: the cached key was returned;
\* evicted: "del self._cache[cache_key]" ran
\* an entry of age cache_ttl still served: <= for <
resolve_to_public_key_ttl_inclusive(did, key_id, resp, c, limits, t, t_store) ==
    LET cache_key == CacheKey(did, key_id)
        same == [cache |-> c, limits |-> limits, fetched |-> 0, passed |-> FALSE,
                 domain |-> "", hit |-> FALSE, evicted |-> FALSE]
    IN
    IF Len(did.text) > MAX_DID_LENGTH
    THEN [result |-> Raise("ValidationError", "DID too long")] @@ same
    ELSE IF cache_key \in DOMAIN c /\ t - c[cache_key][2] <= cache_ttl
         THEN [result |-> Ok(c[cache_key][1]), hit |-> TRUE] @@ same
    ELSE LET c1 == IF cache_key \in DOMAIN c THEN Without(c, cache_key) ELSE c
             d == Dispatch(did, key_id, resp, c1, limits, t)
         IN [result |-> d.result,
             cache |-> IF d.result.exc = "none"
                       THEN (cache_key :> <<d.result.value, t_store>>) @@ c1
                       ELSE c1,
             limits |-> d.limits, fetched |-> d.fetched, passed |-> d.passed,
             domain |-> d.domain, hit |-> FALSE, evicted |-> cache_key \in DOMAIN c]

\* the result cached whether the call returned or raised
resolve_to_public_key_caches_failures(did, key_id, resp, c, limits, t, t_store) ==
    LET cache_key == CacheKey(did, key_id)
        same == [cache |-> c, limits |-> limits, fetched |-> 0, passed |-> FALSE,
                 domain |-> "", hit |-> FALSE, evicted |-> FALSE]
    IN
    IF Len(did.text) > MAX_DID_LENGTH
    THEN [result |-> Raise("ValidationError", "DID too long")] @@ same
    ELSE IF cache_key \in DOMAIN c /\ t - c[cache_key][2] < cache_ttl
         THEN [result |-> Ok(c[cache_key][1]), hit |-> TRUE] @@ same
    ELSE LET c1 == IF cache_key \in DOMAIN c THEN Without(c, cache_key) ELSE c
             d == Dispatch(did, key_id, resp, c1, limits, t)
         IN [result |-> d.result,
             cache |-> (cache_key :> <<d.result.value, t_store>>) @@ c1,
             limits |-> d.limits, fetched |-> d.fetched, passed |-> d.passed,
             domain |-> d.domain, hit |-> FALSE, evicted |-> cache_key \in DOMAIN c]

resolve_to_public_key(did, key_id, resp, c, limits, t, t_store) ==
    LET cache_key == CacheKey(did, key_id)
        same == [cache |-> c, limits |-> limits, fetched |-> 0, passed |-> FALSE,
                 domain |-> "", hit |-> FALSE, evicted |-> FALSE]
    IN
    IF Len(did.text) > MAX_DID_LENGTH
    THEN [result |-> Raise("ValidationError", "DID too long")] @@ same
    ELSE IF cache_key \in DOMAIN c /\ t - c[cache_key][2] < cache_ttl
         THEN [result |-> Ok(c[cache_key][1]), hit |-> TRUE] @@ same
    ELSE LET c1 == IF cache_key \in DOMAIN c THEN Without(c, cache_key) ELSE c
             d == Dispatch(did, key_id, resp, c1, limits, t)
         IN [result |-> d.result,
             cache |-> IF d.result.exc = "none"
                       THEN (cache_key :> <<d.result.value, t_store>>) @@ c1
                       ELSE c1,
             limits |-> d.limits, fetched |-> d.fetched, passed |-> d.passed,
             domain |-> d.domain, hit |-> FALSE, evicted |-> cache_key \in DOMAIN c]

----------------------------------------------------------------------------
(* The identifiers, the DID documents and the responses the model draws.   *)
(* A DID is its text, the text split at every ':' and, for did:key, the    *)
(* characters after "did:key:" as base58 positions.                        *)

WebDid(text, segs) == [text |-> text, segs |-> segs, mb |-> <<>>]

\* the did:key of the repository's tests
DID_KEY_TEST ==
    [text |-> "did:key:z6MkhaXgBZDvotDkL5257faiztiGiC2QtKLGpbnnEGta2doK",
     segs |-> <<"did", "key", "z6MkhaXgBZDvotDkL5257faiztiGiC2QtKLGpbnnEGta2doK">>,
     mb |-> <<57, 5, 20, 43, 40, 33, 30, 39, 10, 32, 12, 53, 46, 51, 12, 43, 19, 4,
              1, 4, 6, 38, 33, 41, 57, 51, 41, 15, 41, 11, 1, 23, 51, 18, 19, 15,
              47, 34, 45, 45, 13, 15, 51, 33, 1, 36, 46, 18>>]

\* base58btc(0xED) : one payload byte
DID_KEY_SHORT ==
    [text |-> "did:key:z56", segs |-> <<"did", "key", "z56">>, mb |-> <<57, 4, 5>>]

\* "did:key:" with nothing after it
DID_KEY_NO_MULTIBASE == [text |-> "did:key:", segs |-> <<"did", "key", "">>, mb |-> <<>>]

\* base58btc(0xED 0x01 + the 31 bytes 1..31)
DID_KEY_31 ==
    [text |-> "did:key:z2DQUz8yxybcgY49o2TDENNPqPQBbVynuU6CcNCWtSMrwMx",
     segs |-> <<"did", "key", "z2DQUz8yxybcgY49o2TDENNPqPQBbVynuU6CcNCWtSMrwMx">>,
     mb |-> <<57, 1, 12, 23, 27, 57, 7, 56, 55, 56, 34, 35, 39, 31, 3, 8, 46, 1, 26,
              12, 13, 21, 21, 22, 48, 22, 23, 10, 34, 28, 56, 45, 52, 27, 5, 11, 35,
              21, 11, 29, 51, 25, 20, 49, 54, 20, 55>>]

\* base58btc(0xED 0x01 + the 33 bytes 1..33)
DID_KEY_33 ==
    [text |-> "did:key:zQebecGaHdoVnoJG767ZUcQLQ857pRDTS3ASqDZtV5XgUfRZ2",
     segs |-> <<"did", "key", "zQebecGaHdoVnoJG767ZUcQLQ857pRDTS3ASqDZtV5XgUfRZ2">>,
     mb |-> <<57, 23, 37, 34, 37, 35, 15, 33, 16, 36, 46, 28, 45, 46, 17, 15, 6, 5, 6,
              32, 27, 35, 23, 19, 23, 7, 4, 6, 47, 24, 12, 26, 25, 2, 9, 25, 48, 12,
              32, 51, 28, 4, 30, 39, 27, 38, 24, 32, 1>>]

\* base58btc(0xAB 0xCD + 32 zero bytes), the wrong multicodec of the tests
DID_KEY_WRONG_PREFIX ==
    [text |-> "did:key:z4tG5zKYNDVzGk2RCxwHsYigbjyHbAvBR3sCpuhwsM3VnmHh",
     segs |-> <<"did", "key", "z4tG5zKYNDVzGk2RCxwHsYigbjyHbAvBR3sCpuhwsM3VnmHh">>,
     mb |-> <<57, 3, 51, 15, 4, 57, 18, 31, 21, 12, 28, 57, 15, 43, 1, 24, 11, 55, 54,
              16, 50, 31, 41, 39, 34, 42, 56, 16, 34, 9, 53, 10, 24, 2, 50, 11, 47,
              52, 40, 54, 50, 20, 2, 28, 45, 44, 16, 40>>]

\* the text of DID_KEY_TEST followed by "##key-2": '#' and '-' are outside
\* the base58 alphabet (position 99)
DID_KEY_TEST_HASH_KEY2 ==
    [text |-> DID_KEY_TEST.text \o "##key-2",
     segs |-> <<"did", "key", DID_KEY_TEST.segs[3] \o "##key-2">>,
     mb |-> DID_KEY_TEST.mb \o <<99, 99, 43, 37, 56, 99, 1>>]

DID_WEB_A == WebDid("did:web:example.com", <<"did", "web", "example.com">>)
DID_WEB_A_ALICE ==
    WebDid("did:web:example.com:user:alice", <<"did", "web", "example.com", "user", "alice">>)
DID_WEB_B == WebDid("did:web:other.example.org", <<"did", "web", "other.example.org">>)

DID_WEB_LOOPBACK == WebDid("did:web:127.0.0.1", <<"did", "web", "127.0.0.1">>)
DID_WEB_METADATA ==
    WebDid("did:web:169.254.169.254:latest:meta-data",
           <<"did", "web", "169.254.169.254", "latest", "meta-data">>)
DID_WEB_PRIVATE_10 == WebDid("did:web:10.0.0.5", <<"did", "web", "10.0.0.5">>)
DID_WEB_LOCALHOST == WebDid("did:web:localhost:test", <<"did", "web", "localhost", "test">>)
DID_WEB_LOCALHOST_UPPER == WebDid("did:web:LOCALHOST", <<"did", "web", "LOCALHOST">>)
DID_WEB_ANY == WebDid("did:web:0.0.0.0", <<"did", "web", "0.0.0.0">>)
DID_WEB_PRIVATE_192 == WebDid("did:web:192.168.1.1", <<"did", "web", "192.168.1.1">>)
DID_WEB_PRIVATE_172 == WebDid("did:web:172.31.255.1", <<"did", "web", "172.31.255.1">>)
DID_WEB_LOOPBACK_2 == WebDid("did:web:127.0.0.2", <<"did", "web", "127.0.0.2">>)
\* an address just outside 172.16.0.0/12
DID_WEB_PUBLIC_172 == WebDid("did:web:172.32.0.1", <<"did", "web", "172.32.0.1">>)
\* the IPv6 loopback written after "did:web:": the text splits at every
\* colon, so the domain the code extracts is the empty string
DID_WEB_V6_LOOPBACK == WebDid("did:web:::1", <<"did", "web", "", "", "1">>)

DID_NO_SCHEME == WebDid("example.com", <<"example.com">>)
DID_TWO_PARTS == WebDid("did:web", <<"did", "web">>)
DID_OTHER_METHOD == WebDid("did:foo:bar", <<"did", "foo", "bar">>)

\* base58 of the 32 bytes 1..32, of the 31 bytes 1..31
B58_KEY_32 ==
    <<3, 54, 10, 48, 47, 32, 20, 8, 55, 33, 25, 40, 37, 32, 57, 17, 25, 20, 33, 54,
      27, 18, 18, 54, 40, 36, 47, 11, 40, 18, 34, 32, 4, 37, 52, 4, 43, 56, 3, 28,
      41, 39, 54>>
B58_KEY_31 ==
    <<51, 40, 30, 5, 19, 32, 38, 16, 12, 32, 32, 18, 27, 50, 8, 1, 38, 37, 34, 31,
      32, 40, 31, 24, 35, 30, 36, 36, 44, 57, 38, 57, 14, 1, 21, 53, 26, 43, 22,
      21, 13>>
\* base64url, unpadded, of the 32 bytes 1..32
B64_KEY_32 ==
    <<0, 16, 8, 3, 1, 0, 20, 6, 1, 48, 32, 9, 2, 32, 44, 12, 3, 16, 56, 15, 4, 1,
      4, 18, 4, 49, 16, 21, 5, 33, 28, 24, 6, 17, 40, 27, 7, 1, 52, 30, 7, 50, 0>>

NoJwk == [kty |-> "", crv |-> "", x |-> <<>>]

Method(id, type, fields, b58, multibase, jwk) ==
    [id |-> id, type |-> type, fields |-> fields, publicKeyBase58 |-> b58,
     publicKeyMultibase |-> multibase, publicKeyJwk |-> jwk]

DocResponse(methods) == [status |-> "ok", doc |-> methods]

RESP_BASE58 ==
    DocResponse(<< Method(<<"#keys-1">>, "Ed25519VerificationKey2020",
                          {"publicKeyBase58"}, B58_KEY_32, <<>>, NoJwk) >>)
\* a document whose #keys-1 is 32 bytes and whose #key-2 is 31 bytes
RESP_MULTIBASE ==
    DocResponse(<< Method(<<"did:web:example.com", "#keys-1">>, "Ed25519VerificationKey2018",
                          {"publicKeyMultibase"}, <<>>, <<57>> \o B58_KEY_32, NoJwk),
                   Method(<<"#key-2">>, "Ed25519VerificationKey2020",
                          {"publicKeyBase58"}, B58_KEY_31, <<>>, NoJwk) >>)
RESP_JWK ==
    DocResponse(<< Method(<<"#keys-1">>, "JsonWebKey2020", {"publicKeyJwk"}, <<>>, <<>>,
                          [kty |-> "OKP", crv |-> "Ed25519", x |-> B64_KEY_32]) >>)
\* publicKeyBase58 "2g": one byte
RESP_SHORT_KEY ==
    DocResponse(<< Method(<<"#keys-1">>, "Ed25519VerificationKey2020",
                          {"publicKeyBase58"}, <<1, 39>>, <<>>, NoJwk) >>)
\* a JWK without x: jwk.get('x', '') is the empty string
RESP_JWK_NO_X ==
    DocResponse(<< Method(<<"#keys-1">>, "JsonWebKey2020", {"publicKeyJwk"}, <<>>, <<>>,
                          [kty |-> "OKP", crv |-> "Ed25519", x |-> <<>>]) >>)
\* publicKeyBase58 "0O": characters outside the base58 alphabet
RESP_BAD_BASE58 ==
    DocResponse(<< Method(<<"#keys-1">>, "Ed25519VerificationKey2018",
                          {"publicKeyBase58"}, <<99, 99>>, <<>>, NoJwk) >>)
\* publicKeyMultibase ""
RESP_EMPTY_MULTIBASE ==
    DocResponse(<< Method(<<"#keys-1">>, "Ed25519VerificationKey2018",
                          {"publicKeyMultibase"}, <<>>, <<>>, NoJwk) >>)
\* a JWK whose x is "A": one base64 character
RESP_JWK_ONE_CHAR ==
    DocResponse(<< Method(<<"#keys-1">>, "JsonWebKey2020", {"publicKeyJwk"}, <<>>, <<>>,
                          [kty |-> "OKP", crv |-> "Ed25519", x |-> <<0>>]) >>)
RESP_NO_METHODS == DocResponse(<<>>)
RESP_ERROR == [status |-> "RequestException", doc |-> <<>>]
\* requests.get(url, timeout=self.timeout) ran out of time
RESP_TIMEOUT == [status |-> "Timeout", doc |-> <<>>]
\* response.raise_for_status() on a 4xx or 5xx answer
RESP_HTTP_ERROR == [status |-> "HTTPError", doc |-> <<>>]
RESP_CONTENT_TYPE == [status |-> "bad_content_type", doc |-> <<>>]
RESP_TOO_LARGE == [status |-> "too_large", doc |-> <<>>]
RESP_BAD_JSON == [status |-> "invalid_json", doc |-> <<>>]

\* what the network can answer to the fetch of did: requests.get on a URL
\* without a host raises InvalidURL, a RequestException; an identifier that
\* is no did:web is never fetched
ResponsesFor(did, all) ==
    IF Len(did.segs) >= 3 /\ did.segs[2] = "web" /\ did.segs[3] # "" THEN all
    ELSE {RESP_ERROR}

----------------------------------------------------------------------------
(* Bounds of the resolver specifications *)

\* seconds between two readings of the clock
TickStep == 30
\* the clock stops after this many ticks
MaxTicks == 3
\* resolve calls drawn by SpecInputs
MaxCalls == 2
\* resolve calls drawn, and recorded, by SpecTrail
MaxTrail == 4

----------------------------------------------------------------------------
(* The resolver's actions *)

NoCall == [did |-> "", key_id |-> NoKeyId, domain |-> "", exc |-> "none",
           why |-> "no call", value |-> <<>>, fetched |-> 0, passed |-> FALSE,
           hit |-> FALSE, evicted |-> FALSE, answer |-> "none"]

\* the record kept of one resolve_to_public_key call; answer is what the
\* fetch found, when there was one
CallRecord(did, key_id, resp, r) ==
    [did |-> did.text, key_id |-> key_id, domain |-> r.domain, exc |-> r.result.exc,
     why |-> r.result.why, value |-> r.result.value, fetched |-> r.fetched,
     passed |-> r.passed, hit |-> r.hit, evicted |-> r.evicted,
     answer |-> IF r.fetched > 0 THEN resp.status ELSE "none"]

EmptyMap == [x \in {} |-> <<>>]

\* the threads inside _check_rate_limit: none
NoCallers == [mode |-> "one caller"]

\* the resolver after __init__, before any call
FreshResolver ==
    /\ now = 0
    /\ cache = EmptyMap
    /\ rate_limits = EmptyMap
    /\ admitted = EmptyMap
    /\ last = NoCall
    /\ calls = 0
    /\ trail = <<>>

ResolverInit ==
    /\ FreshResolver
    /\ callers = NoCallers

\* the history of admitted requests, kept for RATE_WINDOW seconds
Recent(hist, t) == [d \in DOMAIN hist |-> SelectSeq(hist[d], LAMBDA a : t - a < RATE_WINDOW)]

Admit(hist, domain, t) ==
    (domain :> Append(IF domain \in DOMAIN hist THEN hist[domain] ELSE <<>>, t)) @@ hist

\* time passes
Tick ==
    /\ now + TickStep <= TickStep * MaxTicks
    /\ now' = now + TickStep
    /\ admitted' = Recent(admitted, now + TickStep)
    /\ UNCHANGED <<cache, rate_limits, last, calls, trail, callers, mk, sig, mw>>

\* one call of resolve_to_public_key(did, key_id); the fetch, when there is
\* one, finds resp and takes delay seconds
ResolveCall(did, key_id, resp, delay) ==
    LET r == resolve_to_public_key(did, key_id, resp, cache, rate_limits, now,
                                   now + delay)
        took == IF r.fetched = 1 THEN delay ELSE 0
    IN /\ now + delay <= TickStep * MaxTicks
       /\ now' = now + took
       /\ cache' = r.cache
       /\ rate_limits' = r.limits
       /\ admitted' = Recent(IF r.passed THEN Admit(admitted, r.domain, now)
                             ELSE admitted, now + took)
       /\ last' = CallRecord(did, key_id, resp, r)
       /\ UNCHANGED <<callers, mk, sig, mw>>

\* DIDResolver.clear_cache
ClearCache ==
    /\ cache # EmptyMap
    /\ cache' = EmptyMap
    /\ UNCHANGED <<now, rate_limits, admitted, last, calls, trail, callers, mk, sig, mw>>

\* Spec: the requests that exercise the cache and the rate limiter over time
TimedRequests ==
    { <<DID_WEB_A, NoKeyId>>, <<DID_WEB_A_ALICE, NoKeyId>>, <<DID_WEB_B, NoKeyId>>,
      <<DID_WEB_LOOPBACK, NoKeyId>> }

\* a key, a failing fetch, and a document from which no key is extracted
TimedResponses == {RESP_JWK, RESP_ERROR, RESP_NO_METHODS}

FetchDelays == {0, TickStep}

Resolve ==
    \E rq \in TimedRequests, resp \in TimedResponses, delay \in FetchDelays :
        /\ ResolveCall(rq[1], rq[2], resp, delay)
        /\ UNCHANGED <<calls, trail>>

\* n characters
RECURSIVE Text(_)
Text(n) ==
    IF n = 0 THEN "" ELSE IF n = 1 THEN "a" ELSE Text(n \div 2) \o Text(n - n \div 2)

\* "did:web:aaa...", of MAX_DID_LENGTH + 1 characters
DID_TOO_LONG ==
    WebDid("did:web:" \o Text(MAX_DID_LENGTH - 7), <<"did", "web", Text(MAX_DID_LENGTH - 7)>>)

\* identifiers no resolver answers: too long, without the scheme, of another
\* method, and a did:key without its multibase text
RefusedRequests == {DID_TOO_LONG, DID_NO_SCHEME, DID_OTHER_METHOD, DID_KEY_NO_MULTIBASE}

ResolveRefused ==
    \E did \in RefusedRequests :
        /\ ResolveCall(did, NoKeyId, RESP_ERROR, 0)
        /\ UNCHANGED <<calls, trail>>

\* SpecRace: RaceCallers threads share one resolver and resolve did:web
\* identifiers of one domain. In mode "atomic" every resolve_to_public_key
\* call runs from its first statement to its last before another starts (the
\* callers hold a lock around the call); in mode "interleaved" nothing
\* orders them, and the statements of _check_rate_limit are the steps: the
\* dictionary test, the assignment of [], the list comprehension, the
\* assignment of its result, the length test, the append.
RaceCallers == {1, 2}
\* resolve calls one thread makes
MaxRaceCalls == 2

RaceDomain == DID_WEB_A.segs[3]

RaceRequests == {DID_WEB_A, DID_WEB_A_ALICE}

RaceResponses == {RESP_JWK, RESP_ERROR}

RaceInit ==
    \E mode \in {"atomic", "interleaved"} :
        callers = [mode |-> mode,
                   pc |-> [c \in RaceCallers |-> "idle"],
                   made |-> [c \in RaceCallers |-> 0],
                   t |-> [c \in RaceCallers |-> 0],
                   kept |-> [c \in RaceCallers |-> <<>>],
                   seen |-> [c \in RaceCallers |-> 0],
                   passed |-> [c \in RaceCallers |-> FALSE]]

\* one whole resolve_to_public_key call of thread c, under the callers' lock
RaceAtomic ==
    \E c \in RaceCallers, did \in RaceRequests, resp \in RaceResponses :
        /\ callers.mode = "atomic"
        /\ callers.made[c] < MaxRaceCalls
        /\ LET r == resolve_to_public_key(did, NoKeyId, resp, cache, rate_limits, now, now)
           IN /\ cache' = r.cache
              /\ rate_limits' = r.limits
              /\ admitted' = IF r.passed THEN Admit(admitted, r.domain, now) ELSE admitted
              /\ last' = CallRecord(did, NoKeyId, resp, r)
              /\ callers' = [callers EXCEPT !.made[c] = @ + 1, !.t[c] = now,
                                            !.passed[c] = r.passed]
        /\ UNCHANGED <<now, calls, trail, mk, sig, mw>>

\* thread c, in a resolution the cache does not answer, enters
\* _check_rate_limit: "now = time()" and "if domain not in self._rate_limits"
RaceEnter(c) ==
    /\ callers.mode = "interleaved"
    /\ callers.pc[c] = "idle"
    /\ callers.made[c] < MaxRaceCalls
    /\ callers' = [callers EXCEPT !.pc[c] = IF RaceDomain \in DOMAIN rate_limits
                                            THEN "comprehension" ELSE "new list",
                                  !.made[c] = @ + 1, !.t[c] = now, !.passed[c] = FALSE]
    /\ UNCHANGED <<now, cache, rate_limits, admitted, last, calls, trail, mk, sig, mw>>

\* self._rate_limits[domain] = []
RaceNewList(c) ==
    /\ callers.mode = "interleaved"
    /\ callers.pc[c] = "new list"
    /\ rate_limits' = (RaceDomain :> <<>>) @@ rate_limits
    /\ callers' = [callers EXCEPT !.pc[c] = "comprehension"]
    /\ UNCHANGED <<now, cache, admitted, last, calls, trail, mk, sig, mw>>

\* [t for t in self._rate_limits[domain] if t > minute_ago]
RaceComprehension(c) ==
    /\ callers.mode = "interleaved"
    /\ callers.pc[c] = "comprehension"
    /\ callers' = [callers EXCEPT !.pc[c] = "store",
                                  !.kept[c] = Younger(rate_limits[RaceDomain],
                                                      callers.t[c] - RATE_WINDOW)]
    /\ UNCHANGED <<now, cache, rate_limits, admitted, last, calls, trail, mk, sig, mw>>

\* self._rate_limits[domain] = (the list the comprehension built)
RaceStore(c) ==
    /\ callers.mode = "interleaved"
    /\ callers.pc[c] = "store"
    /\ rate_limits' = [rate_limits EXCEPT ![RaceDomain] = callers.kept[c]]
    /\ callers' = [callers EXCEPT !.pc[c] = "check"]
    /\ UNCHANGED <<now, cache, admitted, last, calls, trail, mk, sig, mw>>

\* if len(self._rate_limits[domain]) >= self._rate_limit_max: raise
RaceCheck(c) ==
    /\ callers.mode = "interleaved"
    /\ callers.pc[c] = "check"
    /\ callers' = [callers EXCEPT !.pc[c] = IF Len(rate_limits[RaceDomain]) >= rate_limit_max
                                            THEN "idle" ELSE "append",
                                  !.seen[c] = Len(rate_limits[RaceDomain])]
    /\ UNCHANGED <<now, cache, rate_limits, admitted, last, calls, trail, mk, sig, mw>>

\* self._rate_limits[domain].append(now); the fetch that follows fails, and
\* the call leaves the cache as it was
RaceAppend(c) ==
    /\ callers.mode = "interleaved"
    /\ callers.pc[c] = "append"
    /\ rate_limits' = [rate_limits EXCEPT ![RaceDomain] = Append(@, callers.t[c])]
    /\ admitted' = Recent(Admit(admitted, RaceDomain, callers.t[c]), now)
    /\ callers' = [callers EXCEPT !.pc[c] = "idle", !.passed[c] = TRUE]
    /\ UNCHANGED <<now, cache, last, calls, trail, mk, sig, mw>>

\* SpecInputs: a fresh resolver asked, MaxCalls times, to resolve any of the
\* identifiers against any of the responses
InputDids ==
    { DID_KEY_TEST, DID_KEY_SHORT, DID_KEY_NO_MULTIBASE, DID_KEY_31, DID_KEY_33,
      DID_KEY_WRONG_PREFIX, DID_WEB_A, DID_WEB_PUBLIC_172, DID_WEB_LOOPBACK,
      DID_WEB_METADATA, DID_WEB_PRIVATE_10, DID_WEB_LOCALHOST, DID_WEB_LOCALHOST_UPPER,
      DID_WEB_ANY, DID_WEB_PRIVATE_192, DID_WEB_PRIVATE_172, DID_WEB_LOOPBACK_2,
      DID_WEB_V6_LOOPBACK, DID_NO_SCHEME, DID_TWO_PARTS, DID_OTHER_METHOD }

InputKeyIds == {NoKeyId, "#key-2"}

InputResponses ==
    { RESP_BASE58, RESP_MULTIBASE, RESP_JWK, RESP_SHORT_KEY, RESP_JWK_NO_X,
      RESP_BAD_BASE58, RESP_EMPTY_MULTIBASE, RESP_JWK_ONE_CHAR,
      RESP_NO_METHODS, RESP_ERROR, RESP_TIMEOUT, RESP_HTTP_ERROR, RESP_CONTENT_TYPE,
      RESP_TOO_LARGE, RESP_BAD_JSON }

ResolveInput ==
    \E did \in InputDids, key_id \in InputKeyIds :
        \E resp \in ResponsesFor(did, InputResponses) :
            /\ calls < MaxCalls
            /\ calls' = calls + 1
            /\ ResolveCall(did, key_id, resp, 0)
            /\ UNCHANGED trail

\* SpecTrail: one resolver asked for up to MaxTrail resolutions of a few
\* identifiers as time passes, every call kept in trail
TrailRequests ==
    { <<DID_KEY_TEST, "#key-2">>, <<DID_KEY_TEST_HASH_KEY2, NoKeyId>>,
      <<DID_WEB_A, NoKeyId>>, <<DID_WEB_A_ALICE, NoKeyId>> }

TrailResponses == {RESP_JWK, RESP_ERROR}

\* the domain a did:web identifier names, "" for any other identifier
TargetDomain(did) ==
    IF Len(did.segs) >= 3 /\ did.segs[2] = "web" THEN did.segs[3] ELSE ""

ResolveTrail ==
    \E rq \in TrailRequests :
        \E resp \in ResponsesFor(rq[1], TrailResponses) :
            /\ Len(trail) < MaxTrail
            /\ ResolveCall(rq[1], rq[2], resp, 0)
            /\ trail' = Append(trail, [at |-> now, target |-> TargetDomain(rq[1])] @@ last')
            /\ UNCHANGED calls

----------------------------------------------------------------------------
(* TransparencyLogVerifier. A field of an entry is a Python value: None (or *)
(* absent), a str held as the list of its characters, or an int.           *)

MAX_LOG_ID_LENGTH == 256
MAX_ENTRY_ID_LENGTH == 128
\* 1024 * 1024
MAX_PROOF_LENGTH == 1048576

\* TransparencyLogVerifier(): verify_proofs defaults to True
verify_proofs == TRUE

PyNone == [t |-> "none", s |-> <<>>, n |-> 0]
PyStr(chars) == [t |-> "str", s |-> chars, n |-> 0]
PyInt(n) == [t |-> "int", s |-> <<>>, n |-> n]

\* bool(v)
Truthy(v) == (v.t = "str" /\ v.s # <<>>) \/ (v.t = "int" /\ v.n # 0)

\* s.startswith(prefix)
StartsWith(s, prefix) == Len(s) >= Len(prefix) /\ SubSeq(s, 1, Len(prefix)) = prefix

\* the value of one digit, 99 for a character that is none
DigitVal(c) ==
    CASE c = "0" -> 0 [] c = "1" -> 1 [] c = "2" -> 2 [] c = "3" -> 3 [] c = "4" -> 4
      [] c = "5" -> 5 [] c = "6" -> 6 [] c = "7" -> 7 [] c = "8" -> 8 [] c = "9" -> 9
      [] c = "a" -> 10 [] c = "b" -> 11 [] c = "c" -> 12 [] c = "d" -> 13
      [] c = "e" -> 14 [] c = "f" -> 15 [] OTHER -> 99

RECURSIVE DigitsValue(_, _, _)
DigitsValue(digits, base, acc) ==
    IF digits = <<>> THEN acc
    ELSE DigitsValue(Tail(digits), base, acc * base + DigitVal(Head(digits)))

\* int(s, base) of a string without sign, blanks or underscores: the number,
\* or -1 where Python raises ValueError
ParseInt(s, base) ==
    LET digits == IF base = 16 /\ StartsWith(s, <<"0", "x">>) THEN SubSeq(s, 3, Len(s)) ELSE s
    IN IF digits = <<>> \/ \E j \in 1..Len(digits) : DigitVal(digits[j]) >= base
       THEN -1
       ELSE DigitsValue(digits, base, 0)

\* The text of the inclusion_proof field: an optional "base64:" prefix, a
\* base64 body that decodes to the byte chunks (or does not decode: wrong
\* padding), and whether the text ends with "...".
ProofText(prefixed, valid, chunks, ellipsis) ==
    [t |-> "str", n |-> 0, prefixed |-> prefixed, valid |-> valid, chunks |-> chunks,
     ellipsis |-> ellipsis]
ProofNone == [t |-> "none", n |-> 0, prefixed |-> FALSE, valid |-> TRUE, chunks |-> <<>>,
              ellipsis |-> FALSE]
ProofInt(n) == [t |-> "int", n |-> n, prefixed |-> FALSE, valid |-> TRUE, chunks |-> <<>>,
                ellipsis |-> FALSE]

\* bool(inclusion_proof_b64)
ProofTruthy(p) ==
    \/ p.t = "int" /\ p.n # 0
    \/ p.t = "str" /\ (p.prefixed \/ p.ellipsis \/ ~p.valid \/ p.chunks # <<>>)

\* The root_hash field: None, bytes, or hex text with an optional "sha256:"
\* prefix that bytes.fromhex turns into value (or rejects)
RootNone == [t |-> "none", prefixed |-> FALSE, hexok |-> TRUE, value |-> <<>>]
RootBytes(h) == [t |-> "bytes", prefixed |-> FALSE, hexok |-> TRUE, value |-> h]
RootHex(prefixed, hexok, h) == [t |-> "str", prefixed |-> prefixed, hexok |-> hexok, value |-> h]

RECURSIVE SumLen(_)
SumLen(chunks) == IF chunks = <<>> THEN 0 ELSE ByteLen(Head(chunks)) + SumLen(Tail(chunks))

\* the entry_id parsed and the proof verified whether or not the entry
\* carries a root_hash
tl_verify_inclusion_proof_without_root(entry, leaf_data) ==
    LET p == entry.inclusion_proof
        root == entry.root_hash
        failed == <<"Failed to decode inclusion proof">>
    IN
    IF p.t # "str" THEN failed
    ELSE IF ~p.valid THEN failed
    ELSE IF SumLen(p.chunks) > MAX_PROOF_LENGTH THEN <<"Proof too large">>
    ELSE IF SumLen(p.chunks) % 32 # 0 THEN <<"Proof length not multiple of 32">>
    ELSE IF root.t = "str" /\ ~root.hexok THEN failed
    ELSE LET leaf_hash == hash_leaf(leaf_data)
             entry_id == entry.entry_id
             leaf_index == IF entry_id.t = "str"
                           THEN IF StartsWith(entry_id.s, <<"0", "x">>)
                                THEN ParseInt(entry_id.s, 16)
                                ELSE ParseInt(entry_id.s, 10)
                           ELSE entry_id.n
         IN IF entry_id.t = "str" /\ leaf_index = -1 THEN failed
            ELSE LET is_valid == verify_inclusion_proof(leaf_hash, entry.tree_size.n,
                                                        leaf_index, p.chunks,
                                                        IF root.t = "none"
                                                        THEN RawBytes(0, "None")
                                                        ELSE root.value)
                 IN IF is_valid = "True" THEN <<>>
                    ELSE IF is_valid = "False" THEN <<"Inclusion proof verification failed">>
                    ELSE <<is_valid>>

\* TransparencyLogVerifier._verify_inclusion_proof: the list of errors.
\* The chunks drawn are 32-byte digests, with at most one shorter chunk at
\* the end, so cutting the bytes every 32 gives the chunks back.
tl_verify_inclusion_proof(entry, leaf_data) ==
    LET p == entry.inclusion_proof
        root == entry.root_hash
        failed == <<"Failed to decode inclusion proof">>
    IN
    IF p.t # "str" THEN failed                      \* .startswith: AttributeError
    ELSE IF ~p.valid THEN failed                    \* b64decode: binascii.Error
    ELSE IF SumLen(p.chunks) > MAX_PROOF_LENGTH THEN <<"Proof too large">>
    ELSE IF SumLen(p.chunks) % 32 # 0 THEN <<"Proof length not multiple of 32">>
    ELSE IF root.t = "none" \/ root.value = <<>> THEN <<>>
    ELSE IF root.t = "str" /\ ~root.hexok THEN failed   \* bytes.fromhex: ValueError
    ELSE LET leaf_hash == hash_leaf(leaf_data)
             entry_id == entry.entry_id
             leaf_index == IF entry_id.t = "str"
                           THEN IF StartsWith(entry_id.s, <<"0", "x">>)
                                THEN ParseInt(entry_id.s, 16)
                                ELSE ParseInt(entry_id.s, 10)
                           ELSE entry_id.n
         IN IF entry_id.t = "str" /\ leaf_index = -1 THEN failed   \* int(): ValueError
            ELSE LET is_valid == verify_inclusion_proof(leaf_hash, entry.tree_size.n,
                                                        leaf_index, p.chunks, root.value)
                 IN IF is_valid = "True" THEN <<>>
                    ELSE IF is_valid = "False" THEN <<"Inclusion proof verification failed">>
                    ELSE <<is_valid>>

\* what verify_transparency_entry yields: (success, errors), or an exception
Verdict(ok, errors) == [exc |-> "none", ok |-> ok, errors |-> errors]
Raised(e) == [exc |-> e, ok |-> FALSE, errors |-> <<>>]

\* the "..." marker looked at only after the proof was verified
verify_transparency_entry_self_marker_last(self, entry, leaf_data) ==
    LET log_id == entry.log_id
        entry_id == entry.entry_id
        tree_size == entry.tree_size
        inclusion_proof_b64 == entry.inclusion_proof
    IN
    IF ~Truthy(log_id) THEN Verdict(FALSE, <<"Missing log_id in transparency entry">>)
    ELSE IF log_id.t = "int" THEN Raised("TypeError")
    ELSE IF Len(log_id.s) > MAX_LOG_ID_LENGTH THEN Verdict(FALSE, <<"log_id too long">>)
    ELSE IF entry_id.t = "none"
         THEN Verdict(FALSE, <<"Missing entry_id in transparency entry">>)
    ELSE IF entry_id.t = "str" /\ Len(entry_id.s) > MAX_ENTRY_ID_LENGTH
         THEN Verdict(FALSE, <<"entry_id too long">>)
    ELSE IF tree_size.t # "int" \/ tree_size.n <= 0
         THEN Verdict(FALSE, <<"Invalid tree_size">>)
    ELSE IF ~ProofTruthy(inclusion_proof_b64) THEN Verdict(FALSE, <<"Missing inclusion_proof">>)
    ELSE IF self.verify_proofs
         THEN LET proof_errors == tl_verify_inclusion_proof(entry, leaf_data) IN
              IF proof_errors # <<>> THEN Verdict(FALSE, proof_errors)
              ELSE Verdict(TRUE, <<>>)
    ELSE Verdict(TRUE, <<>>)

\* TransparencyLogVerifier.verify_transparency_entry of the verifier self
verify_transparency_entry_self(self, entry, leaf_data) ==
    LET log_id == entry.log_id
        entry_id == entry.entry_id
        tree_size == entry.tree_size
        inclusion_proof_b64 == entry.inclusion_proof
    IN
    IF ~Truthy(log_id) THEN Verdict(FALSE, <<"Missing log_id in transparency entry">>)
    ELSE IF log_id.t = "int" THEN Raised("TypeError")      \* len(log_id)
    ELSE IF Len(log_id.s) > MAX_LOG_ID_LENGTH THEN Verdict(FALSE, <<"log_id too long">>)
    ELSE IF entry_id.t = "none"
         THEN Verdict(FALSE, <<"Missing entry_id in transparency entry">>)
    ELSE IF entry_id.t = "str" /\ Len(entry_id.s) > MAX_ENTRY_ID_LENGTH
         THEN Verdict(FALSE, <<"entry_id too long">>)
    ELSE IF tree_size.t # "int" \/ tree_size.n <= 0
         THEN Verdict(FALSE, <<"Invalid tree_size">>)
    ELSE IF ~ProofTruthy(inclusion_proof_b64) THEN Verdict(FALSE, <<"Missing inclusion_proof">>)
    ELSE IF inclusion_proof_b64.t = "str" /\ inclusion_proof_b64.ellipsis
         THEN Verdict(TRUE, <<>>)
    ELSE IF self.verify_proofs
         THEN LET proof_errors == tl_verify_inclusion_proof(entry, leaf_data) IN
              IF proof_errors # <<>> THEN Verdict(FALSE, proof_errors)
              ELSE Verdict(TRUE, <<>>)
    ELSE Verdict(TRUE, <<>>)

\* verify_transparency_entry of TransparencyLogVerifier()
verify_transparency_entry(entry, leaf_data) ==
    verify_transparency_entry_self([verify_proofs |-> verify_proofs], entry, leaf_data)

\* one message line of verify_multi_witness
Line(kind, index, text) == [kind |-> kind, index |-> index, text |-> text]

Details(index, errors) == [j \in 1..Len(errors) |-> Line("detail", index, errors[j])]

\* the "for i, entry in enumerate(entries)" loop from entry i on: the
\* exception that ended it (or "none"), the successes counted, the
\* messages appended and the entries handed to verify_transparency_entry
RECURSIVE WitnessLoop(_, _, _, _, _, _)
WitnessLoop(entries, leaf_data, i, success_count, messages, evaluated) ==
    IF i > Len(entries)
    THEN [exc |-> "none", success_count |-> success_count, messages |-> messages,
          evaluated |-> evaluated]
    ELSE LET entry == entries[i] IN
         IF ~entry.dict                                    \* entry.get: AttributeError
         THEN [exc |-> "AttributeError", success_count |-> success_count,
               messages |-> messages, evaluated |-> evaluated]
         ELSE LET r == verify_transparency_entry(entry, leaf_data) IN
              IF r.exc # "none"
              THEN [exc |-> r.exc, success_count |-> success_count, messages |-> messages,
                    evaluated |-> Append(evaluated, i)]
              ELSE IF r.ok
                   THEN WitnessLoop(entries, leaf_data, i + 1, success_count + 1,
                                    Append(messages, Line("pass", i, "Verification passed")),
                                    Append(evaluated, i))
              ELSE WitnessLoop(entries, leaf_data, i + 1, success_count,
                               Append(messages, Line("fail", i, "Verification failed"))
                                   \o Details(i, r.errors),
                               Append(evaluated, i))

\* require_all ignored: one success is enough in both modes
verify_multi_witness_quorum_only(entries, leaf_data, require_all) ==
    IF entries = <<>>
    THEN [result |-> "True", evaluated |-> <<>>,
          messages |-> <<Line("summary", 0, "No transparency entries to verify")>>]
    ELSE LET loop == WitnessLoop(entries, leaf_data, 1, 0,
                                 <<Line("header", 0, "Verifying witness(es)")>>, <<>>)
         IN IF loop.exc # "none"
            THEN [result |-> loop.exc, evaluated |-> loop.evaluated, messages |-> <<>>]
            ELSE LET overall_success == loop.success_count > 0
                 IN [result |-> IF overall_success THEN "True" ELSE "False",
                     evaluated |-> loop.evaluated,
                     messages |-> Append(loop.messages,
                                         Line("summary", 0,
                                              IF overall_success THEN "verified"
                                              ELSE "not verified"))]

\* TransparencyLogVerifier.verify_multi_witness: result is "True", "False" or
\* the exception that left the call
verify_multi_witness(entries, leaf_data, require_all) ==
    IF entries = <<>>
    THEN [result |-> "True", evaluated |-> <<>>,
          messages |-> <<Line("summary", 0, "No transparency entries to verify")>>]
    ELSE LET total_count == Len(entries)
             loop == WitnessLoop(entries, leaf_data, 1, 0,
                                 <<Line("header", 0, "Verifying witness(es)")>>, <<>>)
         IN IF loop.exc # "none"
            THEN [result |-> loop.exc, evaluated |-> loop.evaluated, messages |-> <<>>]
            ELSE LET overall_success == IF require_all
                                        THEN loop.success_count = total_count
                                        ELSE loop.success_count > 0
                 IN [result |-> IF overall_success THEN "True" ELSE "False",
                     evaluated |-> loop.evaluated,
                     messages |-> Append(loop.messages,
                                         Line("summary", 0,
                                              IF overall_success THEN "verified"
                                              ELSE "not verified"))]

----------------------------------------------------------------------------
(* SpecWitness: verify_multi_witness applied to drawn lists of entries *)

\* most entries in a list
MaxEntries == 3

Entry(log_id, entry_id, tree_size, inclusion_proof, root_hash) ==
    [dict |-> TRUE, log_id |-> log_id, entry_id |-> entry_id, tree_size |-> tree_size,
     inclusion_proof |-> inclusion_proof, root_hash |-> root_hash]

\* a list element that is no dict (a string, None)
NotADict ==
    [dict |-> FALSE, log_id |-> PyNone, entry_id |-> PyNone, tree_size |-> PyNone,
     inclusion_proof |-> ProofNone, root_hash |-> RootNone]

LogA == PyStr(<<"l", "o", "g", "A">>)
LogB == PyStr(<<"l", "o", "g", "B">>)

\* the logs that hold leaf_data: two leaves with leaf_data second, and three
\* leaves with leaf_data last
Log2(leaf_data) == <<"first entry", leaf_data>>
Log3(leaf_data) == <<"first entry", "second entry", leaf_data>>

\* an honest entry of the two-leaf log: int entry_id, root as bytes
EntryGood(leaf_data) ==
    Entry(LogA, PyInt(1), PyInt(2),
          ProofText(FALSE, TRUE, PATH(1, Log2(leaf_data)), FALSE),
          RootBytes(MTH(Log2(leaf_data))))
\* the same with entry_id "0x1", a "base64:" prefix and a "sha256:" hex root
EntryGoodHex(leaf_data) ==
    Entry(LogB, PyStr(<<"0", "x", "1">>), PyInt(2),
          ProofText(TRUE, TRUE, PATH(1, Log2(leaf_data)), FALSE),
          RootHex(TRUE, TRUE, MTH(Log2(leaf_data))))
\* the root of another log
EntryWrongRoot(leaf_data) ==
    Entry(LogA, PyInt(1), PyInt(2),
          ProofText(FALSE, TRUE, PATH(1, Log2(leaf_data)), FALSE),
          RootBytes(MTH(<<"first entry", "another entry">>)))
\* no root_hash
EntryNoRoot(leaf_data) ==
    Entry(LogB, PyInt(1), PyInt(2),
          ProofText(FALSE, TRUE, PATH(1, Log2(leaf_data)), FALSE), RootNone)
\* an inclusion_proof that ends with "..."
EntryPlaceholder == Entry(LogA, PyInt(0), PyInt(1), ProofText(FALSE, FALSE, <<>>, TRUE), RootNone)
\* no log_id
EntryNoLogId(leaf_data) ==
    Entry(PyNone, PyInt(1), PyInt(2),
          ProofText(FALSE, TRUE, PATH(1, Log2(leaf_data)), FALSE),
          RootBytes(MTH(Log2(leaf_data))))
\* log_id 5, a number
EntryIntLogId(leaf_data) ==
    Entry(PyInt(5), PyInt(1), PyInt(2),
          ProofText(FALSE, TRUE, PATH(1, Log2(leaf_data)), FALSE),
          RootBytes(MTH(Log2(leaf_data))))
\* a base64 text with wrong padding
EntryBadBase64(leaf_data) ==
    Entry(LogA, PyInt(1), PyInt(2), ProofText(FALSE, FALSE, <<>>, FALSE),
          RootBytes(MTH(Log2(leaf_data))))
\* inclusion_proof 5, a number
EntryIntProof(leaf_data) ==
    Entry(LogA, PyInt(1), PyInt(2), ProofInt(5), RootBytes(MTH(Log2(leaf_data))))
\* entry_id "xyz"
EntryBadEntryId(leaf_data) ==
    Entry(LogB, PyStr(<<"x", "y", "z">>), PyInt(2),
          ProofText(FALSE, TRUE, PATH(1, Log2(leaf_data)), FALSE),
          RootBytes(MTH(Log2(leaf_data))))
\* a proof cut one byte short
EntryShortProof(leaf_data) ==
    Entry(LogA, PyInt(1), PyInt(2), ProofText(FALSE, TRUE, <<RawBytes(31, 1)>>, FALSE),
          RootBytes(MTH(Log2(leaf_data))))
\* an honest entry of the three-leaf log
EntryGood3(leaf_data) ==
    Entry(LogB, PyInt(2), PyInt(3),
          ProofText(FALSE, TRUE, PATH(2, Log3(leaf_data)), FALSE),
          RootBytes(MTH(Log3(leaf_data))))

LEAF_DATA == "{\"id\":\"op1\"}"

\* SpecEntry: one entry put together from the values each field may hold
Chars(n) == [j \in 1..n |-> "x"]

EntryLogIds ==
    { PyNone, PyStr(<<>>), LogA, PyStr(Chars(MAX_LOG_ID_LENGTH)),
      PyStr(Chars(MAX_LOG_ID_LENGTH + 1)), PyInt(5) }

EntryIds ==
    { PyNone, PyInt(0), PyInt(1), PyStr(<<"0", "x", "1">>), PyStr(<<"x", "y", "z">>),
      PyStr(Chars(MAX_ENTRY_ID_LENGTH)), PyStr(Chars(MAX_ENTRY_ID_LENGTH + 1)) }

EntryTreeSizes == { PyNone, PyInt(-1), PyInt(0), PyInt(2), PyInt(5), PyStr(<<"2">>) }

\* no proof, the empty string, the honest audit path, a text that ends with
\* "...", a text that is no base64, 31 bytes, 32 bytes more than
\* MAX_PROOF_LENGTH, a number
EntryProofs(leaf_data) ==
    { ProofNone,
      ProofText(FALSE, TRUE, <<>>, FALSE),
      ProofText(FALSE, TRUE, PATH(1, Log2(leaf_data)), FALSE),
      ProofText(FALSE, FALSE, <<>>, TRUE),
      ProofText(FALSE, FALSE, <<>>, FALSE),
      ProofText(FALSE, TRUE, <<RawBytes(31, 1)>>, FALSE),
      ProofText(FALSE, TRUE, <<RawBytes(MAX_PROOF_LENGTH + 32, 1)>>, FALSE),
      ProofInt(5) }

EntryRoots(leaf_data) ==
    { RootNone, RootBytes(MTH(Log2(leaf_data))),
      RootBytes(MTH(<<"first entry", "another entry">>)) }

EntryLeafData == { LEAF_DATA, "{\"id\":\"op2\"}" }

\* the arguments of one verify_transparency_entry call and the verifier it
\* is made on
EntryInit ==
    \E log_id \in EntryLogIds, entry_id \in EntryIds, tree_size \in EntryTreeSizes,
       leaf_data \in EntryLeafData, self_verify_proofs \in BOOLEAN :
        \E proof \in EntryProofs(LEAF_DATA), root \in EntryRoots(LEAF_DATA) :
            mw = [op |-> "entry_call",
                  entry |-> Entry(log_id, entry_id, tree_size, proof, root),
                  leaf_data |-> leaf_data, verify_proofs |-> self_verify_proofs,
                  verdict |-> Verdict(FALSE, <<>>)]

WitnessEntries(leaf_data) ==
    { EntryGood(leaf_data), EntryGoodHex(leaf_data), EntryWrongRoot(leaf_data),
      EntryNoRoot(leaf_data), EntryPlaceholder, EntryNoLogId(leaf_data),
      EntryIntLogId(leaf_data), NotADict, EntryBadBase64(leaf_data),
      EntryIntProof(leaf_data), EntryBadEntryId(leaf_data), EntryShortProof(leaf_data),
      EntryGood3(leaf_data) }

ListsUpTo(S, n) == UNION { [1..k -> S] : k \in 0..n }

MwIdle == [op |-> "none"]

\* the arguments of one call
WitnessInit ==
    \E entries \in ListsUpTo(WitnessEntries(LEAF_DATA), MaxEntries), require_all \in BOOLEAN :
        mw = [op |-> "call", entries |-> entries, require_all |-> require_all,
              result |-> "", evaluated |-> <<>>, messages |-> <<>>]

\* verify_multi_witness(entries, LEAF_DATA, require_all=require_all)
VerifyMultiWitness ==
    /\ mw.op = "call"
    /\ LET r == verify_multi_witness(mw.entries, LEAF_DATA, mw.require_all) IN
       mw' = [mw EXCEPT !.op = "done", !.result = r.result, !.evaluated = r.evaluated,
                        !.messages = r.messages]
    /\ UNCHANGED <<resolverVars, mk, sig>>

\* TransparencyLogVerifier(verify_proofs=...).verify_transparency_entry of
\* the call held in mw
VerifyEntry ==
    /\ mw.op = "entry_call"
    /\ mw' = [mw EXCEPT !.op = "entry_done",
                        !.verdict = verify_transparency_entry_self(
                                        [verify_proofs |-> mw.verify_proofs],
                                        mw.entry, mw.leaf_data)]
    /\ UNCHANGED <<resolverVars, mk, sig>>

----------------------------------------------------------------------------
(* validator.py: GenesisGraphValidator(verify_signatures=True,             *)
(* verify_transparency=True). A JSON value is a str, a list of values or a *)
(* dict, held as the list of its <<key, value>> pairs in insertion order.  *)

MAX_SIGNATURE_LENGTH == 4096

JStr(text) == [t |-> "str", s |-> text, d |-> <<>>]
JList(items) == [t |-> "list", s |-> "", d |-> items]
JDict(pairs) == [t |-> "dict", s |-> "", d |-> pairs]
\* a datetime.date, what yaml.safe_load makes of a scalar such as 2024-01-15
JDate(text) == [t |-> "date", s |-> text, d |-> <<>>]

\* json.dumps(data) returns: it raises TypeError ("Object of type date is
\* not JSON serializable") when data holds a value that is no JSON value
RECURSIVE Serializable(_)
Serializable(data) ==
    CASE data.t = "str" -> TRUE
      [] data.t = "date" -> FALSE
      [] data.t = "list" -> \A j \in 1..Len(data.d) : Serializable(data.d[j])
      [] data.t = "dict" -> \A j \in 1..Len(data.d) : Serializable(data.d[j][2])

\* the keys the model draws, in the order sort_keys puts them
KeyOrder ==
    << "attestation", "id", "inputs", "log_id", "mode", "outputs", "signature", "signer",
       "transparency", "type" >>

\* sorted(pairs) by key
RECURSIVE SortFrom(_, _)
SortFrom(pairs, i) ==
    IF i > Len(KeyOrder) THEN <<>>
    ELSE SelectSeq(pairs, LAMBDA pair : pair[1] = KeyOrder[i]) \o SortFrom(pairs, i + 1)

\* GenesisGraphValidator._canonical_json:
\* json.dumps(data, sort_keys=True, separators=(',', ':'), ensure_ascii=False),
\* the text returned for data that is Serializable
RECURSIVE canonical_json(_)
RECURSIVE JoinItems(_)
RECURSIVE JoinPairs(_)
canonical_json(data) ==
    CASE data.t = "str" -> "\"" \o data.s \o "\""
      [] data.t = "list" -> "[" \o JoinItems(data.d) \o "]"
      [] data.t = "dict" -> "{" \o JoinPairs(SortFrom(data.d, 1)) \o "}"

JoinItems(items) ==
    IF items = <<>> THEN ""
    ELSE canonical_json(Head(items))
         \o (IF Len(items) > 1 THEN "," ELSE "") \o JoinItems(Tail(items))

JoinPairs(pairs) ==
    IF pairs = <<>> THEN ""
    ELSE "\"" \o Head(pairs)[1] \o "\":" \o canonical_json(Head(pairs)[2])
         \o (IF Len(pairs) > 1 THEN "," ELSE "") \o JoinPairs(Tail(pairs))

\* signed_data = dict(operation_data); signed_data.pop('attestation', None)
WithoutAttestation(operation_data) ==
    JDict(SelectSeq(operation_data.d, LAMBDA pair : pair[1] # "attestation"))

\* The signature string "algorithm:data": whether it holds a colon, the text
\* before the first colon, the characters after it, and what the bytes that
\* base64.b64decode(data) returns are: an Ed25519 signature made with the
\* private key of `key` over the message `msg` (of no key: no signature).
Signature(has_colon, algo, data, key, msg) ==
    [present |-> TRUE, has_colon |-> has_colon, algo |-> algo, data |-> data,
     key |-> key, msg |-> msg]

NoSignature ==
    [present |-> FALSE, has_colon |-> FALSE, algo |-> "", data |-> <<>>,
     key |-> <<>>, msg |-> ""]

B64_ALPHABET ==
    { "A", "B", "C", "D", "E", "F", "G", "H", "I", "J", "K", "L", "M", "N", "O", "P",
      "Q", "R", "S", "T", "U", "V", "W", "X", "Y", "Z", "a", "b", "c", "d", "e", "f",
      "g", "h", "i", "j", "k", "l", "m", "n", "o", "p", "q", "r", "s", "t", "u", "v",
      "w", "x", "y", "z", "0", "1", "2", "3", "4", "5", "6", "7", "8", "9", "+", "/" }

\* base64.b64decode(data), validate=False, of data without '=': the
\* characters outside the alphabet are discarded, and binascii.Error is
\* raised when those left do not fill whole groups of four
b64decode(data) ==
    IF Len(SelectSeq(data, LAMBDA c : c \in B64_ALPHABET)) % 4 # 0 THEN "binascii.Error"
    ELSE "ok"

\* "".join(chars)
RECURSIVE Join(_)
Join(chars) ==
    IF chars = <<>> THEN ""
    ELSE IF Len(chars) = 1 THEN chars[1]
    ELSE Join(SubSeq(chars, 1, Len(chars) \div 2))
             \o Join(SubSeq(chars, Len(chars) \div 2 + 1, Len(chars)))

SignatureText(signature) ==
    signature.algo \o (IF signature.has_colon THEN ":" ELSE "") \o Join(signature.data)

\* SIGNATURE_PATTERN = ^(ed25519|ecdsa|rsa):.+$
is_valid_signature_format(signature) ==
    /\ signature.has_colon
    /\ signature.algo \in {"ed25519", "ecdsa", "rsa"}
    /\ signature.data # <<>>

MOCK_PREFIX == <<"m", "o", "c", "k", ":">>
SIG_PREFIX == <<"s", "i", "g">>

\* Ed25519PublicKey.from_public_bytes(public_key_bytes).verify(signature, message):
\* "ok", "InvalidSignature", or "ValueError" for a key that is not 32 bytes
ed25519_verify(public_key_bytes, signature, message) ==
    IF Len(public_key_bytes) # 32 THEN "ValueError"
    ELSE IF signature.key = public_key_bytes /\ signature.msg = message THEN "ok"
    ELSE "InvalidSignature"

\* what _verify_signature yields: the errors, the steps it ran, the message
\* it verified and the resolver's call
SigOutcome(errors, steps, message, r) ==
    [errors |-> errors, steps |-> steps, message |-> message, r |-> r]

\* _verify_signature from "Step 2" on, r being what resolve_to_public_key gave
VerifyResolved(r, signature, operation_data) ==
    IF r.result.exc = "ValidationError"
    THEN SigOutcome(<<"failed to resolve signer DID">>, {"resolve"}, "", r)
    ELSE IF r.result.exc # "none"
         THEN SigOutcome(<<"unexpected error during signature verification">>,
                         {"resolve"}, "", r)
    ELSE IF b64decode(signature.data) # "ok"
         THEN SigOutcome(<<"failed to decode signature">>, {"resolve", "decode"}, "", r)
    ELSE IF ~Serializable(WithoutAttestation(operation_data))
         THEN SigOutcome(<<"failed to compute canonical JSON">>,
                         {"resolve", "decode", "encode"}, "", r)
    ELSE LET message == canonical_json(WithoutAttestation(operation_data))
             v == ed25519_verify(r.result.value, signature, message)
         IN SigOutcome(IF v = "ok" THEN <<>>
                       ELSE IF v = "InvalidSignature"
                            THEN <<"signature verification failed - invalid signature">>
                       ELSE <<"signature verification error">>,
                       {"resolve", "decode", "encode", "verify"}, message, r)

\* GenesisGraphValidator._verify_signature; signer is the DID named by the
\* attestation (its text is empty when the attestation names none), resp
\* what the network answers, c and limits the state of the validator's
\* resolver and t the time
verify_signature(attestation, operation_data, resp, c, limits, t) ==
    LET signature == attestation.signature
        signer == attestation.signer
        idle == [result |-> Ok(<<>>), cache |-> c, limits |-> limits, fetched |-> 0,
                 passed |-> FALSE, domain |-> "", hit |-> FALSE, evicted |-> FALSE]
    IN
    IF ~signature.present \/ SignatureText(signature) = "" \/ signer.text = ""
    THEN SigOutcome(<<>>, {}, "", idle)
    ELSE IF ~signature.has_colon
         THEN SigOutcome(<<"malformed signature">>, {}, "", idle)
    ELSE IF signature.algo = "ed25519"
         THEN IF StartsWith(signature.data, MOCK_PREFIX) \/ StartsWith(signature.data, SIG_PREFIX)
              THEN SigOutcome(<<>>, {}, "", idle)
              ELSE VerifyResolved(resolve_to_public_key(signer, NoKeyId, resp, c, limits, t, t),
                                  signature, operation_data)
    ELSE IF signature.algo \in {"ecdsa", "rsa"}
         THEN SigOutcome(<<"signature verification not yet implemented">>, {}, "", idle)
    ELSE SigOutcome(<<"unsupported signature algorithm">>, {}, "", idle)

\* "if '✗' in msg or 'failed' in msg.lower()" on a line of verify_multi_witness
MentionsFailure(line) ==
    \/ line.kind = "fail"
    \/ line.kind = "summary" /\ line.text = "not verified"
    \/ line.kind = "detail"
       /\ line.text \in {"Inclusion proof verification failed",
                         "Failed to decode inclusion proof"}

\* what _verify_transparency_anchoring yields: the exception that left it (or
\* "none"), the errors, whether verify_multi_witness was called and the
\* leaf_data handed to it
AnchorOutcome(exc, errors, called, leaf_data) ==
    [exc |-> exc, errors |-> errors, called |-> called, leaf_data |-> leaf_data]

\* _verify_transparency_anchoring after verify_multi_witness returned w (or
\* raised): "if not is_valid", the messages that mention a failure are errors
MessagesToErrors(w, leaf_data) ==
    IF w.result \notin {"True", "False"}
    THEN AnchorOutcome(w.result, <<>>, TRUE, leaf_data)
    ELSE AnchorOutcome("none",
                       IF w.result = "False" THEN SelectSeq(w.messages, MentionsFailure)
                       ELSE <<>>,
                       TRUE, leaf_data)

\* GenesisGraphValidator._verify_transparency_anchoring
verify_transparency_anchoring(transparency_entries, operation_data) ==
    IF transparency_entries = <<>> THEN AnchorOutcome("none", <<>>, FALSE, "")
    ELSE IF operation_data.d = <<>>
         THEN AnchorOutcome("none", <<"cannot verify transparency without operation data">>,
                            FALSE, "")
    ELSE IF ~Serializable(operation_data)
         THEN AnchorOutcome("none", <<"failed to compute canonical JSON for transparency">>,
                            FALSE, "")
    ELSE MessagesToErrors(verify_multi_witness(transparency_entries,
                                               canonical_json(operation_data), FALSE),
                          canonical_json(operation_data))

\* what _validate_attestation yields: the errors of its own checks, then
\* those of _verify_signature (so) and of _verify_transparency_anchoring
\* (ao), or the exception that left the anchoring
AttestOutcome(own_errors, so, ao) ==
    [exc |-> ao.exc,
     errors |-> IF ao.exc = "none" THEN own_errors \o so.errors \o ao.errors ELSE <<>>,
     steps |-> so.steps, message |-> so.message,
     r |-> so.r, sig_errors |-> so.errors, anchored |-> ao.called,
     leaf_data |-> ao.leaf_data]

VALID_MODES == {"basic", "signed", "verifiable", "zk", "sd-jwt", "bbs-plus", "predicate"}

\* GenesisGraphValidator._validate_attestation(attestation, context,
\* operation_data), for the modes that carry no credential block
validate_attestation(attestation, operation_data, resp, c, limits, t) ==
    LET mode == attestation.mode
        signature == attestation.signature
        idle == [result |-> Ok(<<>>), cache |-> c, limits |-> limits, fetched |-> 0,
                 passed |-> FALSE, domain |-> "", hit |-> FALSE, evicted |-> FALSE]
        not_run == SigOutcome(<<>>, {}, "", idle)
        mode_errors == IF mode \notin VALID_MODES THEN <<"invalid attestation mode">> ELSE <<>>
        signer_errors == IF mode \in {"signed", "verifiable", "zk"} /\ ~attestation.has_signer
                         THEN <<"attestation mode requires 'signer'">> ELSE <<>>
    IN AttestOutcome(
           mode_errors \o signer_errors,
           IF mode \notin {"signed", "verifiable", "zk"} THEN not_run
           ELSE IF ~signature.present
                THEN SigOutcome(<<"attestation mode requires 'signature'">>, {}, "", idle)
           ELSE IF Len(SignatureText(signature)) > MAX_SIGNATURE_LENGTH
                THEN SigOutcome(<<"signature too long">>, {}, "", idle)
           ELSE IF ~is_valid_signature_format(signature)
                THEN SigOutcome(<<"invalid signature format">>, {}, "", idle)
           ELSE IF operation_data.d # <<>>
                THEN verify_signature(attestation, operation_data, resp, c, limits, t)
           ELSE not_run,
           IF attestation.has_transparency
           THEN verify_transparency_anchoring(attestation.transparency, operation_data)
           ELSE AnchorOutcome("none", <<>>, FALSE, ""))

----------------------------------------------------------------------------
(* SpecValidator: _validate_attestation applied to drawn operations *)

\* most transparency entries an attestation carries
MaxAnchors == 2

\* the fields of the operation of the signature tests, in two insertion orders
OperationFields ==
    { << <<"id", JStr("op_test")>>, <<"type", JStr("process")>>,
         <<"inputs", JList(<<JStr("input1")>>)>>, <<"outputs", JList(<<JStr("output1")>>)>> >>,
      << <<"type", JStr("process")>>, <<"outputs", JList(<<JStr("output1")>>)>>,
         <<"id", JStr("op_test")>>, <<"inputs", JList(<<JStr("input1")>>)>> >> }

\* the same operation with a date among its fields
DatedFields ==
    << <<"id", JStr("op_test")>>, <<"type", JStr("process")>>,
       <<"timestamp", JDate("2024-01-15")>> >>

\* the message the signer of an operation signed: its canonical JSON, and
\* nothing where there is none
SignedPayload(fields) ==
    IF Serializable(JDict(fields)) THEN canonical_json(JDict(fields)) ELSE ""

\* the key of DID_KEY_TEST, and the key of another signer
TestKey == resolve_did_key(DID_KEY_TEST).value
OtherKey == [j \in 1..32 |-> j]

NoSigner == WebDid("", <<"">>)

Signers == {DID_KEY_TEST, DID_KEY_NO_MULTIBASE, DID_WEB_LOOPBACK, DID_WEB_A, NoSigner}

SignerResponses == {RESP_JWK, RESP_SHORT_KEY}

\* the signatures an attestation over the payload may carry
Signatures(payload) ==
    { \* "ed25519:mock:t"
      Signature(TRUE, "ed25519", MOCK_PREFIX \o <<"t">>, <<>>, ""),
      \* "ed25519:sig_e", as in examples/python_sdk_quickstart.py
      Signature(TRUE, "ed25519", SIG_PREFIX \o <<"_", "e">>, <<>>, ""),
      \* the signature of the signer of DID_KEY_TEST over the payload
      Signature(TRUE, "ed25519", <<"k", "3", "J", "l">>, TestKey, payload),
      \* the same signer's signature over another message
      Signature(TRUE, "ed25519", <<"Q", "m", "F", "z">>, TestKey,
                "This is the wrong message"),
      \* another signer's signature over the payload
      Signature(TRUE, "ed25519", <<"Z", "m", "9", "v">>, OtherKey, payload),
      \* "ed25519:!!!": no character of the alphabet, decoded to b""
      Signature(TRUE, "ed25519", <<"!", "!", "!">>, <<>>, ""),
      \* "ed25519:NOT_VALID_BASE64!!!" of the tests: 14 characters of the alphabet
      Signature(TRUE, "ed25519",
                <<"N", "O", "T", "_", "V", "A", "L", "I", "D", "_", "B", "A", "S", "E",
                  "6", "4", "!", "!", "!">>, <<>>, ""),
      \* "ecdsa:p256" and "rsa:abc": algorithms the pattern admits
      Signature(TRUE, "ecdsa", <<"p", "2", "5", "6">>, <<>>, ""),
      Signature(TRUE, "rsa", <<"a", "b", "c">>, <<>>, ""),
      \* "ed25519" without a colon
      Signature(FALSE, "ed25519", <<>>, <<>>, ""),
      NoSignature }

\* the transparency entries an attestation over the payload may carry: the
\* log holds the payload that was signed
Anchors(payload) == {EntryGood(payload), EntryWrongRoot(payload), EntryIntLogId(payload)}

Attestation(mode, has_signer, signer, signature, has_transparency, transparency) ==
    [mode |-> mode, has_signer |-> has_signer, signer |-> signer, signature |-> signature,
     has_transparency |-> has_transparency, transparency |-> transparency]

\* the text of a transparency entry inside the attestation: its log_id alone
EntryJson(entry) ==
    IF entry.dict /\ entry.log_id.t = "str"
    THEN JDict(<< <<"log_id", JStr(Join(entry.log_id.s))>> >>)
    ELSE JDict(<<>>)

AttestationJson(attestation) ==
    JDict(<< <<"mode", JStr(attestation.mode)>> >>
          \o (IF attestation.has_signer
              THEN << <<"signer", JStr(attestation.signer.text)>> >> ELSE <<>>)
          \o (IF attestation.signature.present
              THEN << <<"signature", JStr(SignatureText(attestation.signature))>> >>
              ELSE <<>>)
          \o (IF attestation.has_transparency
              THEN << <<"transparency",
                        JList([j \in 1..Len(attestation.transparency) |->
                                  EntryJson(attestation.transparency[j])])>> >>
              ELSE <<>>))

\* op, as validate() hands it on: the fields and the attestation block
Operation(fields, attestation, first) ==
    JDict(IF first THEN << <<"attestation", AttestationJson(attestation)>> >> \o fields
          ELSE Append(fields, <<"attestation", AttestationJson(attestation)>>))

\* the attestations whose signature and anchors were made for payload
AttestationsOver(payload) ==
    { attestation \in
        { Attestation(mode, has_signer, signer, signature, has_transparency, transparency) :
            mode \in {"basic", "signed"}, has_signer \in BOOLEAN, signer \in Signers,
            signature \in Signatures(payload), has_transparency \in BOOLEAN,
            transparency \in ListsUpTo(Anchors(payload), MaxAnchors) } :
        /\ attestation.has_signer \/ attestation.signer = NoSigner
        /\ attestation.has_transparency \/ attestation.transparency = <<>> }

SigIdle == [op |-> "none"]

\* the arguments of one run: an operation, its attestation, and what the
\* network would answer
ValidatorInit ==
    \E fields \in OperationFields \cup {DatedFields}, first \in BOOLEAN :
        LET payload == SignedPayload(fields) IN
        \E attestation \in AttestationsOver(payload) :
            \E resp \in ResponsesFor(attestation.signer, SignerResponses) :
                sig = [op |-> "call", operation |-> Operation(fields, attestation, first),
                       attestation |-> attestation, resp |-> resp,
                       exc |-> "none", errors |-> <<>>, sig_errors |-> <<>>, steps |-> {},
                       message |-> "", anchored |-> FALSE, leaf_data |-> ""]

\* what the call leaves behind: o in the run's record, and the cache and the
\* rate limiter of the validator's resolver
Validated(o) ==
    /\ sig' = [sig EXCEPT !.op = "done", !.exc = o.exc, !.errors = o.errors,
                          !.sig_errors = o.sig_errors, !.steps = o.steps,
                          !.message = o.message, !.anchored = o.anchored,
                          !.leaf_data = o.leaf_data]
    /\ cache' = o.r.cache
    /\ rate_limits' = o.r.limits
    /\ admitted' = IF o.r.passed THEN Admit(admitted, o.r.domain, now) ELSE admitted
    /\ last' = IF "resolve" \in o.steps
               THEN CallRecord(sig.attestation.signer, NoKeyId, sig.resp, o.r)
               ELSE last

\* self._validate_attestation(op['attestation'], op_id, op)
ValidateAttestation ==
    /\ sig.op = "call"
    /\ Validated(validate_attestation(sig.attestation, sig.operation, sig.resp,
                                      cache, rate_limits, now))
    /\ UNCHANGED <<now, calls, trail, callers, mk, mw>>

----------------------------------------------------------------------------
(* The specifications *)

MerkleInit == mk = MerkleIdle

Init ==
    /\ ResolverInit
    /\ mk = MerkleIdle
    /\ sig = SigIdle
    /\ mw = MwIdle

Next == Tick \/ Resolve \/ ClearCache

Spec == Init /\ [][Next]_vars

\* Spec, and the identifiers no resolver answers
NextCache == Tick \/ Resolve \/ ClearCache \/ ResolveRefused

SpecCache == Init /\ [][NextCache]_vars

InitRace ==
    /\ FreshResolver
    /\ RaceInit
    /\ mk = MerkleIdle
    /\ sig = SigIdle
    /\ mw = MwIdle

NextRace ==
    \/ Tick
    \/ RaceAtomic
    \/ \E c \in RaceCallers :
          \/ RaceEnter(c)
          \/ RaceNewList(c)
          \/ RaceComprehension(c)
          \/ RaceStore(c)
          \/ RaceCheck(c)
          \/ RaceAppend(c)

SpecRace == InitRace /\ [][NextRace]_vars

NextInputs == ResolveInput

NextTrail == Tick \/ ResolveTrail

SpecTrail == Init /\ [][NextTrail]_vars

InitWitness ==
    /\ ResolverInit
    /\ mk = MerkleIdle
    /\ sig = SigIdle
    /\ WitnessInit

NextWitness == VerifyMultiWitness

InitValidator ==
    /\ ResolverInit
    /\ mk = MerkleIdle
    /\ mw = MwIdle
    /\ ValidatorInit

NextValidator == ValidateAttestation

SpecValidator == InitValidator /\ [][NextValidator]_vars

InitEntry ==
    /\ mk = MerkleIdle
    /\ ResolverInit
    /\ sig = SigIdle
    /\ EntryInit

NextEntry == VerifyEntry

SpecEntry == InitEntry /\ [][NextEntry]_vars

SpecWitness == InitWitness /\ [][NextWitness]_vars

SpecInputs == Init /\ [][NextInputs]_vars

----------------------------------------------------------------------------
(* The claims about RFC6962Verifier, checked under SpecMerkle *)

\* C1: for every tree of n leaves built with RFC 6962 hashing and every leaf
\* index i < n, verify_inclusion_proof on the leaf hash, n, i, the honest
\* audit path of leaf i and the honest root returns True, for tree sizes
\* that are no power of two as well as for balanced trees.
InclusionCorrect == mk.op = "inclusion" => mk.result = "True"

\* C2: for every log of n1 >= 1 leaves and the same log with m >= 1 leaves
\* appended, verify_consistency_proof on the two sizes, the two honest roots
\* and the honest RFC 6962 consistency proof returns True.
ConsistencyCorrect == mk.op = "consistency" => mk.result = "True"

\* C11: when the honest proof is accepted, the same call with one proof
\* node, or the root hash, replaced by a different 32-byte value returns
\* False: not True, and no exception.
TamperDetected ==
    (mk.op = "tampered_inclusion" /\ mk.honest = "True") => mk.result = "False"

\* an 8-leaf log, with the third node of an accepted audit path replaced
TamperDetectedWitness ==
    /\ mk.op = "tampered_inclusion" /\ mk.honest = "True"
    /\ mk.tree_size = 8 /\ mk.at = 3 /\ mk.result = "False"

\* the root replaced
TamperedRootWitness ==
    /\ mk.op = "tampered_inclusion" /\ mk.honest = "True"
    /\ mk.at = 0 /\ mk.tree_size > 1 /\ mk.result = "False"

\* C12: for honest logs with 1 <= n1 < n2 whose roots differ, the call with
\* the same sizes and proof but the old and the new root exchanged does not
\* return True.
SwappedRootsRejected ==
    (mk.op = "swapped_consistency" /\ mk.root_1 # mk.root_2) => mk.result # "True"

\* a 3-leaf log grown to 4 leaves, the roots exchanged
SwappedRootsWitness ==
    /\ mk.op = "swapped_consistency" /\ mk.root_1 # mk.root_2
    /\ mk.tree_size_1 = 3 /\ mk.tree_size_2 = 4 /\ mk.result = "False"

\* the tree parameters of the call in mk break a precondition
TreePreconditionBroken ==
    \/ mk.leaf_index < 0
    \/ mk.oversize
    \/ mk.leaf_index >= mk.tree_size
    \/ mk.tree_size <= 0

\* the proof of the call in mk breaks a precondition
ProofPreconditionBroken ==
    \/ Len(mk.proof) > 64
    \/ ByteLen(mk.leaf_hash) # 32
    \/ ByteLen(mk.root) # 32
    \/ \E j \in 1..Len(mk.proof) : ByteLen(mk.proof[j]) # 32

ConsistencySpecialCasesAsStated ==
    mk.op = "consistency_call" =>
        /\ mk.tree_size_1 = mk.tree_size_2
               => (mk.result = "True" <=> (mk.proof = <<>> /\ mk.root_1 = mk.root_2))
        /\ (mk.tree_size_1 = 0 /\ mk.tree_size_2 > 0) => mk.result = "True"

\* the sizes and the root hashes of the call in mk pass the checks made
\* before the special cases
SizesAndRootsValid ==
    /\ mk.tree_size_1 >= 0 /\ mk.tree_size_1 <= MAX_TREE_SIZE
    /\ mk.tree_size_2 >= 0 /\ mk.tree_size_2 <= MAX_TREE_SIZE
    /\ ByteLen(mk.root_1) = 32
    /\ ByteLen(mk.root_2) = 32

\* C22, amended: for tree sizes in 0..MAX_TREE_SIZE and root hashes of 32
\* bytes, equal sizes give True exactly when the proof is empty and the
\* roots are equal, and tree_size_1 = 0 < tree_size_2 gives True for any
\* proof; a size or a root hash that fails those checks raises instead.
ConsistencySpecialCases ==
    mk.op = "consistency_call" =>
        /\ (SizesAndRootsValid /\ mk.tree_size_1 = mk.tree_size_2)
               => (mk.result = "True" <=> (mk.proof = <<>> /\ mk.root_1 = mk.root_2))
        /\ (SizesAndRootsValid /\ mk.tree_size_1 = 0 /\ mk.tree_size_2 > 0)
               => mk.result = "True"
        /\ (~SizesAndRootsValid /\ mk.tree_size_1 <= mk.tree_size_2)
               => mk.result \in {"InvalidTreeError", "InvalidProofError"}

\* an empty first tree was found consistent with a tree of another root on
\* a proof of 65 nodes
ConsistencySpecialCasesWitness ==
    /\ mk.op = "consistency_call"
    /\ mk.tree_size_1 = 0 /\ mk.tree_size_2 = 3
    /\ mk.root_1 # mk.root_2
    /\ Len(mk.proof) = 65
    /\ mk.result = "True"

IsPowerOfTwo(n) == \E e \in 0..30 : Pow2(e) = n

\* C26: for every tree_size_1 >= 1 of the general case the split point k
\* of _verify_consistency_proof_impl is the largest power of two less than
\* or equal to tree_size_1, so the branch of "n1 == k" is taken exactly
\* when tree_size_1 is a power of two.
SplitIsLargestPowerOfTwo ==
    mk.op = "consistency" =>
        /\ IsPowerOfTwo(SplitK(mk.tree_size_1))
        /\ SplitK(mk.tree_size_1) <= mk.tree_size_1
        /\ 2 * SplitK(mk.tree_size_1) > mk.tree_size_1
        /\ (mk.tree_size_1 = SplitK(mk.tree_size_1)) <=> IsPowerOfTwo(mk.tree_size_1)

\* C29: for a leaf hash, a leaf index, a proof and a root that satisfy the
\* preconditions, verify_inclusion_proof returns the same boolean for every
\* tree_size above the leaf index, and that boolean is True whenever the
\* proof folds from the leaf hash to the root, whatever the length of the
\* audit path of (leaf_index, tree_size) is.
TreeSizeIgnored ==
    mk.op = "inclusion_sizes" =>
        /\ mk.result \in {"True", "False"}
        /\ mk.other_result = mk.result
        /\ InclusionFold(mk.leaf_hash, mk.leaf_index, mk.proof) = mk.root
               => mk.result = "True"

\* an empty proof was accepted for a leaf of index 3 whose audit path has
\* nodes, the root being the leaf hash, in two trees of different sizes
TreeSizeIgnoredWitness ==
    /\ mk.op = "inclusion_sizes"
    /\ mk.proof = <<>>
    /\ mk.root = mk.leaf_hash
    /\ mk.leaf_index = 3
    /\ mk.path_length > 0
    /\ mk.tree_size # mk.other_size
    /\ mk.result = "True"
    /\ mk.other_result = "True"

----------------------------------------------------------------------------
(* The claims about DIDResolver over time, checked under Spec *)

\* the identifiers drawn whose host is blocked, and their hosts
BlockedV4AndNames ==
    { "did:web:127.0.0.1", "did:web:169.254.169.254:latest:meta-data",
      "did:web:10.0.0.5", "did:web:localhost:test", "did:web:LOCALHOST",
      "did:web:0.0.0.0", "did:web:192.168.1.1", "did:web:172.31.255.1",
      "did:web:127.0.0.2" }

BlockedDomains ==
    { "127.0.0.1", "169.254.169.254", "10.0.0.5", "localhost", "LOCALHOST", "0.0.0.0",
      "192.168.1.1", "172.31.255.1", "127.0.0.2" }

HeldInWindow(domain) == IF domain \in DOMAIN admitted THEN Len(admitted[domain]) ELSE 0

FreshInCache(did, key_id) ==
    /\ CacheKey(did, key_id) \in DOMAIN cache
    /\ now - cache[CacheKey(did, key_id)][2] < cache_ttl

\* C3: at most rate_limit requests to one domain pass the rate-limit check
\* inside any trailing 60-second window, and a request that reaches the
\* check when the window of its domain already holds rate_limit admitted
\* requests fails with the rate-limit error, without a fetch.
RateLimitHolds ==
    /\ [](\A d \in DOMAIN admitted : Len(admitted[d]) <= rate_limit_max)
    /\ [][\A rq \in TimedRequests, resp \in TimedResponses, delay \in FetchDelays :
            ( /\ ResolveCall(rq[1], rq[2], resp, delay)
              /\ ~FreshInCache(rq[1], rq[2])
              /\ HeldInWindow(rq[1].segs[3]) >= rate_limit_max )
            => ( /\ last'.exc = "ValidationError"
                 /\ last'.why = "rate limit exceeded"
                 /\ last'.fetched = 0
                 /\ admitted' = admitted )]_vars

\* a third request to a domain was refused while two admitted ones were
\* still inside the window
RateLimitWitness ==
    /\ last.why = "rate limit exceeded"
    /\ HeldInWindow(last.domain) = rate_limit_max

\* C4: a call that finds a cache entry of age < cache_ttl returns the cached
\* key with no further work (no fetch, no rate-limit timestamp, the cache as
\* it was); a call that finds an entry of age >= cache_ttl removes it and
\* runs a fresh resolution, which reaches the rate limiter.
CacheTTLHolds ==
    [][\A rq \in TimedRequests, resp \in TimedResponses, delay \in FetchDelays :
        LET key == CacheKey(rq[1], rq[2]) IN
        (ResolveCall(rq[1], rq[2], resp, delay) /\ key \in DOMAIN cache)
        => IF now - cache[key][2] < cache_ttl
           THEN /\ last'.hit /\ last'.exc = "none"
                /\ last'.value = cache[key][1]
                /\ last'.fetched = 0 /\ ~last'.passed
                /\ rate_limits' = rate_limits
                /\ cache' = cache
                /\ now' = now
           ELSE /\ ~last'.hit /\ last'.evicted
                /\ (key \in DOMAIN cache' => cache'[key][2] >= now)
                /\ (last'.passed \/ last'.why = "rate limit exceeded")
                /\ (last'.passed => last'.fetched = 1)]_vars

\* an expired entry was removed and the fresh resolution cached a new one
CacheTTLWitness ==
    /\ last.evicted /\ last.exc = "none" /\ last.fetched = 1
    /\ now >= cache_ttl

\* C13: in every did:web resolution the fetch is issued only after the
\* blocklist check and then the rate-limit check have passed: a call that
\* fetches names a host that is not blocked and found fewer than rate_limit
\* admitted requests in the window of its domain; a blocked host is refused
\* before the rate limiter is touched, and a request refused by either
\* check issues no fetch.
ChecksBeforeFetch ==
    [][\A rq \in TimedRequests, resp \in TimedResponses, delay \in FetchDelays :
        ResolveCall(rq[1], rq[2], resp, delay)
        => /\ last'.fetched = 1
                => /\ rq[1].segs[3] \notin BlockedDomains
                   /\ HeldInWindow(rq[1].segs[3]) < rate_limit_max
           /\ rq[1].segs[3] \in BlockedDomains
                => /\ last'.why = "blocked host" /\ last'.fetched = 0
                   /\ rate_limits' = rate_limits
           /\ last'.why \in {"blocked host", "rate limit exceeded"} => last'.fetched = 0
           /\ (~FreshInCache(rq[1], rq[2]) /\ rq[1].segs[3] \notin BlockedDomains
               /\ HeldInWindow(rq[1].segs[3]) >= rate_limit_max)
                => last'.fetched = 0]_vars

\* a request that passed both checks and fetched, on a resolver that has
\* refused nothing yet in this window
ChecksBeforeFetchWitness ==
    /\ last.fetched = 1 /\ last.passed
    /\ last.domain \notin BlockedDomains
    /\ HeldInWindow(last.domain) = rate_limit_max

\* C20: a did:web request adds a timestamp to its domain's rate window
\* exactly when the limit check passes: a request rejected by the limiter
\* (or answered before it reaches the limiter) adds none; a request that
\* passes adds exactly one, the time of the check and not of the end of the
\* fetch, and the timestamp is there whether the fetch and the key
\* extraction then succeed or fail. No other domain's window changes.
TimestampRecorded ==
    [][\A rq \in TimedRequests, resp \in TimedResponses, delay \in FetchDelays :
        ResolveCall(rq[1], rq[2], resp, delay)
        => LET d == rq[1].segs[3]
               kept == Younger(RateList(rate_limits, d), now - RATE_WINDOW)
               passes == /\ ~FreshInCache(rq[1], rq[2])
                         /\ d \notin BlockedDomains
                         /\ HeldInWindow(d) < rate_limit_max
           IN /\ passes => RateList(rate_limits', d) = Append(kept, now)
              /\ ~passes => RateList(rate_limits', d) \in {RateList(rate_limits, d), kept}
              /\ \A e \in (DOMAIN rate_limits \cup DOMAIN rate_limits') \ {d} :
                    RateList(rate_limits', e) = RateList(rate_limits, e)]_vars

\* a request passed the check, its fetch took TickStep seconds and gave a
\* document without the key: the timestamp of the check is in the window
TimestampRecordedWitness ==
    /\ last.passed /\ last.fetched = 1 /\ last.answer = "ok"
    /\ last.exc = "ValidationError"
    /\ RateList(rate_limits, last.domain) # <<>>
    /\ RateList(rate_limits, last.domain)[Len(rate_limits[last.domain])] = now - TickStep

----------------------------------------------------------------------------
(* The claims about the resolver's cache, checked under SpecCache *)

\* the calls of SpecCache: the identifier, the key_id, the answer and the
\* delay
SpecCalls ==
    { <<rq[1], rq[2], resp, delay>> :
        rq \in TimedRequests, resp \in TimedResponses, delay \in FetchDelays }
    \cup { <<did, NoKeyId, RESP_ERROR, 0>> : did \in RefusedRequests }

\* the entries of c2 that c1 does not hold as they are
Written(c1, c2) == { k \in DOMAIN c2 : k \notin DOMAIN c1 \/ c2[k] # c1[k] }

\* C28: the cache holds only successful results: every cache entry was
\* written by a resolve call that returned a key. A call that returns
\* writes at most the entry of its own key, holding the key it returned; a
\* call that fails (oversized DID, bad format, unsupported method, blocked
\* host, rate limit, fetch or key-extraction failure) adds no entry, and
\* the only cache change it can make is the removal of the expired entry
\* for the requested key. Whatever entry a step writes is the key the last
\* call returned, under that call's identifier, written when it returned.
CacheHoldsSuccesses ==
    [][/\ \A call \in SpecCalls :
            (last'.did = call[1].text /\ ResolveCall(call[1], call[2], call[3], call[4]))
            => LET key == CacheKey(call[1], call[2]) IN
               IF last'.exc = "none"
               THEN /\ Written(cache, cache') \subseteq {key}
                    /\ DOMAIN cache \subseteq DOMAIN cache'
                    /\ key \in Written(cache, cache') => cache'[key] = <<last'.value, now'>>
                    /\ cache'[key][1] = last'.value
               ELSE /\ Written(cache, cache') = {}
                    /\ \/ cache' = cache
                       \/ /\ key \in DOMAIN cache
                          /\ now - cache[key][2] >= cache_ttl
                          /\ cache' = Without(cache, key)
       /\ \A k \in Written(cache, cache') :
            /\ last'.exc = "none" /\ ~last'.hit
            /\ k = last'.did
            /\ cache'[k] = <<last'.value, now'>>]_vars

\* a call failed and took the expired entry of its key out of the cache,
\* which still holds the entry of another key
CacheHoldsSuccessesWitness ==
    /\ last.exc # "none"
    /\ last.evicted
    /\ last.did \notin DOMAIN cache
    /\ cache # EmptyMap

----------------------------------------------------------------------------
(* The claims about a resolver shared by threads, checked under SpecRace *)

\* C30: DIDResolver guards neither its cache nor its rate-limit map. When
\* each resolve call runs atomically, every interleaving of the calls of
\* two callers resolving did:web identifiers of one domain on one shared
\* resolver keeps the requests admitted inside 60 seconds at or below
\* rate_limit; without synchronization the prune, check and append steps
\* of _check_rate_limit interleave, and both callers can pass the check
\* although only one slot was left (AdmittedBeyondLimit is reached).
AtomicCallsKeepLimit ==
    callers.mode = "atomic"
    => /\ \A d \in DOMAIN admitted : Len(admitted[d]) <= rate_limit_max
       /\ \A d \in DOMAIN rate_limits :
             Len(Younger(rate_limits[d], now - RATE_WINDOW)) <= rate_limit_max

\* without synchronization: both callers found one slot left and passed,
\* and more than rate_limit requests were admitted inside 60 seconds
AdmittedBeyondLimit ==
    /\ callers.mode = "interleaved"
    /\ \A c \in RaceCallers :
          /\ callers.pc[c] = "idle" /\ callers.passed[c]
          /\ callers.seen[c] = rate_limit_max - 1
    /\ Len(admitted[RaceDomain]) > rate_limit_max
    /\ \A j \in 1..Len(admitted[RaceDomain]) : now - admitted[RaceDomain][j] < RATE_WINDOW

----------------------------------------------------------------------------
(* The claims about DIDResolver on drawn inputs, checked under SpecInputs *)

Refused == last.exc = "ValidationError" /\ last.why = "blocked host" /\ last.fetched = 0

\* C5 as stated: resolving a did:web identifier whose domain is 127.0.0.1,
\* 169.254.169.254, 10.0.0.5 or ::1 (and likewise localhost, 0.0.0.0 and a
\* literal IP inside a blocked range) fails with the security error and no
\* network call is issued.
SsrfBlocklistAsStated ==
    last.did \in BlockedV4AndNames \cup {"did:web:::1"} => Refused

\* C5 as amended: the identifiers whose first segment after "did:web:" is a
\* blocked host name or a literal IPv4 address in a blocked range are
\* refused with the blocked-host error, before the rate limiter and without
\* a fetch; _is_blocked_host("::1") holds, but the identifier did:web:::1 is
\* split at every colon, its domain is the empty string, it is not refused
\* by the blocklist: it goes on to the rate limiter and, when admitted, to
\* a fetch, which fails.
SsrfBlocklistHolds ==
    /\ last.did \in BlockedV4AndNames => Refused /\ ~last.passed
    /\ DOMAIN rate_limits \cap BlockedDomains = {}
    /\ is_blocked_host("::1")
    /\ last.did = "did:web:::1"
        => /\ last.domain = ""
           /\ last.exc = "ValidationError"
           /\ IF last.passed THEN last.fetched = 1 /\ last.why = "fetch failed"
              ELSE last.fetched = 0 /\ last.why = "rate limit exceeded"

\* the cloud metadata address was refused
SsrfBlocklistWitness ==
    last.did = "did:web:169.254.169.254:latest:meta-data" /\ Refused

\* cache_key of the call recorded in last
LastCacheKey == IF last.key_id # NoKeyId THEN last.did \o "#" \o last.key_id ELSE last.did

\* C14: a did:web resolve call issues at most one fetch; when the fetch
\* raises a network error, times out, returns an error status, a Content-Type
\* that is not JSON, a body above the size cap or invalid JSON, the call
\* fails, returns no key and stores nothing in the cache.
FailClosedNoRetry ==
    /\ [](last.fetched <= 1)
    /\ []((last.fetched = 1 /\ last.answer # "ok")
            => /\ last.exc = "ValidationError"
               /\ last.value = <<>>
               /\ LastCacheKey \notin DOMAIN cache)
    /\ [][(last'.fetched = 1 /\ last'.answer # "ok")
            => \A k \in DOMAIN cache' : k \in DOMAIN cache /\ cache'[k] = cache[k]]_vars

\* the fetch timed out, after an earlier call had filled the cache
FailClosedWitness ==
    /\ last.fetched = 1 /\ last.answer = "Timeout" /\ last.exc = "ValidationError"
    /\ cache # EmptyMap

\* C10: every value resolve_to_public_key returns, and every value the cache
\* holds, is exactly 32 bytes, for did:key and for did:web with each of the
\* three key encodings.
ResolvedKeyIs32Bytes ==
    /\ last.why = "returned" => Len(last.value) = ED25519_KEY_LENGTH
    /\ \A k \in DOMAIN cache : Len(cache[k][1]) = ED25519_KEY_LENGTH

\* C16: every failure of resolve_to_public_key surfaces as ValidationError;
\* no other exception type escapes the call, whatever the identifier and
\* whatever the fetched DID document holds, malformed or undecodable key
\* material in a matching verification method included.
OnlyValidationErrorEscapes == last.exc \in {"none", "ValidationError"}

\* the did:key identifiers drawn that carry a base58btc multibase string,
\* and the bytes each decodes to
Base58BtcDidKeys ==
    { d \in InputDids : Len(d.segs) >= 3 /\ d.segs[2] = "key" /\ d.mb # <<>> /\ d.mb[1] = 57 }
DecodedPayload == [d \in Base58BtcDidKeys |-> base58_decode(Tail(d.mb))]

\* the (identifier, keyFragment) pair and the cache_key of call i of trail
TrailPair(i) == <<trail[i].did, trail[i].key_id>>
TrailCacheKey(i) ==
    IF trail[i].key_id # NoKeyId THEN trail[i].did \o "#" \o trail[i].key_id
    ELSE trail[i].did

\* the calls before call i that wrote the cache entry call i looks up
StoresBefore(i) ==
    { j \in 1..(i - 1) : /\ TrailCacheKey(j) = TrailCacheKey(i)
                         /\ ~trail[j].hit /\ trail[j].exc = "none" }

LatestOf(S) == CHOOSE j \in S : \A k \in S : k <= j

\* C17: two resolve calls with different (identifier, keyFragment) pairs
\* never read or write the same cache entry, so a call is never answered
\* from an entry that was created for a different pair.
CacheKeyedByPair ==
    /\ \A i, j \in 1..Len(trail) :
            TrailPair(i) # TrailPair(j) => TrailCacheKey(i) # TrailCacheKey(j)
    /\ \A i \in 1..Len(trail) :
            trail[i].hit => /\ StoresBefore(i) # {}
                            /\ TrailPair(LatestOf(StoresBefore(i))) = TrailPair(i)

\* calls i < j < k of trail name one did:web domain and lie inside one
\* window of RATE_WINDOW seconds
ThreeInWindow(i, j, k) ==
    /\ i < j /\ j < k
    /\ trail[i].target # ""
    /\ trail[j].target = trail[i].target /\ trail[k].target = trail[i].target
    /\ trail[k].at - trail[i].at < RATE_WINDOW

\* C19 as stated: with rate_limit=2, for any three resolve calls on one
\* resolver that target the same did:web domain inside one 60-second
\* window, the third call fails.
ThirdCallFails ==
    \A i, j, k \in 1..Len(trail) : ThreeInWindow(i, j, k) => trail[k].exc # "none"

\* C19 as amended: with rate_limit=2, when two resolve calls to one did:web
\* domain have passed the rate-limit check and a third call to that domain
\* is made less than 60 seconds after the first of them, the third call
\* fails unless it is answered from the cache.
ThirdCallFailsUnlessCached ==
    \A i, j, k \in 1..Len(trail) :
        (ThreeInWindow(i, j, k) /\ trail[i].passed /\ trail[j].passed /\ ~trail[k].hit)
        => trail[k].exc = "ValidationError" /\ ~trail[k].passed

\* two fetches of one domain, the second for another path 30 seconds after
\* the first, and a third request refused by the limiter
ThirdCallFailsWitness ==
    /\ Len(trail) >= 3
    /\ ThreeInWindow(1, 2, 3) /\ trail[1].passed /\ trail[2].passed
    /\ trail[2].at > trail[1].at /\ ~trail[3].hit
    /\ trail[3].why = "rate limit exceeded"

\* C18: a did:key whose decoded payload starts with 0xED 0x01 resolves only
\* when exactly 32 bytes follow the prefix and fails when fewer or more
\* follow; a payload whose first two bytes are not 0xED 0x01 fails with an
\* error that names the expected and the received prefix.
DidKeyPayloadLength ==
    \A d \in Base58BtcDidKeys :
        (last.did = d.text /\ DecodedPayload[d].exc = "none"
                           /\ Len(DecodedPayload[d].value) >= MIN_DECODED_LENGTH)
        => LET decoded == DecodedPayload[d].value IN
           IF decoded[1] = 237 /\ decoded[2] = 1
           THEN (last.exc = "none") <=> (Len(decoded) - 2 = 32)
           ELSE /\ last.exc = "ValidationError"
                /\ last.why = "Unsupported key type in did:key. Expected Ed25519 (0xed01), got 0x"
                                  \o Hex02(decoded[1]) \o Hex02(decoded[2])

NextMerkle ==
    \/ HonestInclusion
    \/ HonestConsistency
    \/ TamperedInclusion
    \/ SwappedConsistency
    \/ InclusionCall
    \/ ConsistencyCall
    \/ InclusionTwoSizes

SpecMerkle == Init /\ [][NextMerkle]_vars

----------------------------------------------------------------------------
(* The claims about the validator, checked under SpecValidator *)

\* _verify_signature was reached with an ed25519 signature and a signer
Ed25519Checked ==
    /\ sig.op = "done"
    /\ sig.attestation.mode = "signed"
    /\ sig.attestation.signature.present
    /\ is_valid_signature_format(sig.attestation.signature)
    /\ sig.attestation.signature.algo = "ed25519"
    /\ sig.attestation.signer.text # ""

\* C6: an ed25519 signature is accepted without resolving the signer and
\* without any cryptographic check exactly when its data starts with the
\* marker "mock:" (then no error is reported and the resolver is not
\* called); every other ed25519 signature goes through signer resolution,
\* base64 decoding and verification over the canonical payload.
MockMarkerOnly ==
    Ed25519Checked =>
        IF StartsWith(sig.attestation.signature.data, MOCK_PREFIX)
        THEN sig.sig_errors = <<>> /\ sig.steps = {}
        ELSE /\ "resolve" \in sig.steps
             /\ (sig.sig_errors = <<>>
                    => sig.steps = {"resolve", "decode", "encode", "verify"})

\* the step of _verify_signature an error message names, "none" for a
\* message that names no step
StepNamed(error) ==
    CASE error = "failed to resolve signer DID" -> "resolve"
      [] error = "failed to decode signature" -> "decode"
      [] error = "failed to compute canonical JSON" -> "encode"
      [] error = "signature verification failed - invalid signature" -> "verify"
      [] error = "signature verification error" -> "verify"
      [] OTHER -> "none"

\* the steps in the order the code takes them, and the last one a run took
StepOrder == <<"resolve", "decode", "encode", "verify">>
LastStep(steps) ==
    LET S == { j \in 1..Len(StepOrder) : StepOrder[j] \in steps } IN
    IF S = {} THEN "none" ELSE StepOrder[CHOOSE j \in S : \A k \in S : k <= j]

\* C15: for an ed25519 signature without the test marker, _verify_signature
\* reports no error only when signer resolution, canonical encoding of the
\* payload, base64 decoding of the signature and the Ed25519 check all
\* succeed; when one of them fails it reports exactly one error, and that
\* error identifies which of the four steps failed.
SignatureStepsReported ==
    (Ed25519Checked /\ ~StartsWith(sig.attestation.signature.data, MOCK_PREFIX))
    => /\ sig.sig_errors = <<>> => sig.steps = {"resolve", "decode", "encode", "verify"}
       /\ sig.sig_errors # <<>>
          => /\ Len(sig.sig_errors) = 1
             /\ StepNamed(sig.sig_errors[1]) # "none"
             /\ StepNamed(sig.sig_errors[1]) = LastStep(sig.steps)

\* C7: the leaf_data handed to verify_multi_witness is the canonical
\* encoding of the signed payload, the operation without its attestation:
\* the very bytes signature verification uses.
LeafIsSignedPayload ==
    (sig.op = "done" /\ sig.anchored)
    => /\ sig.leaf_data = canonical_json(WithoutAttestation(sig.operation))
       /\ ("verify" \in sig.steps => sig.leaf_data = sig.message)

\* _verify_signature was reached with an ecdsa or rsa signature and a signer
UnimplementedChecked ==
    /\ sig.op = "done"
    /\ sig.attestation.mode = "signed"
    /\ sig.attestation.signature.present
    /\ sig.attestation.signature.has_colon
    /\ sig.attestation.signature.data # <<>>
    /\ sig.attestation.signature.algo \in {"ecdsa", "rsa"}
    /\ sig.attestation.signer.text # ""

\* "message in errors"
Reports(errors, message) == \E j \in 1..Len(errors) : errors[j] = message

\* the errors a failed ed25519 verification is reported with come out of
\* _verify_signature in its list of errors, which _validate_attestation
\* adds to its own; the attestation is valid when that list is empty
ReportedAsError(message) ==
    /\ Reports(sig.sig_errors, message)
    /\ sig.exc = "none" => Reports(sig.errors, message)

\* C25: with signature verification enabled, a signature whose algorithm is
\* ecdsa or rsa is accepted as format-valid and its verification is
\* reported as not-yet-implemented, an outcome distinct from a verification
\* failure: it is not reported through the error list a failed ed25519
\* verification is reported through, and does not by itself make the
\* attestation invalid.
UnimplementedIsNoFailure ==
    UnimplementedChecked
    => /\ is_valid_signature_format(sig.attestation.signature)
       /\ ~Reports(sig.errors, "invalid signature format")
       /\ ~ReportedAsError("signature verification not yet implemented")
       /\ sig.sig_errors = <<>>

----------------------------------------------------------------------------
(* The claims about verify_multi_witness, checked under SpecWitness *)

\* verify_transparency_entry returns success for the entry
Verifies(entry) ==
    /\ entry.dict
    /\ verify_transparency_entry(entry, LEAF_DATA).exc = "none"
    /\ verify_transparency_entry(entry, LEAF_DATA).ok

AllVerify == \A i \in 1..Len(mw.entries) : Verifies(mw.entries[i])
SomeVerify == \E i \in 1..Len(mw.entries) : Verifies(mw.entries[i])

Returned == mw.op = "done" /\ mw.result \in {"True", "False"}

VerdictLines(i) ==
    { j \in 1..Len(mw.messages) :
        mw.messages[j].kind \in {"pass", "fail"} /\ mw.messages[j].index = i }

\* C9: verify_multi_witness evaluates every entry exactly once, in list
\* order, whatever the earlier entries gave; a failing or malformed entry is
\* a failed witness and does not stop the evaluation of the entries after
\* it, and the messages hold one pass/fail line per entry.
NeverShortCircuits ==
    mw.op = "done" =>
        /\ mw.result \in {"True", "False"}
        /\ mw.evaluated = [i \in 1..Len(mw.entries) |-> i]
        /\ \A i \in 1..Len(mw.entries) :
              /\ Cardinality(VerdictLines(i)) = 1
              /\ \A j \in VerdictLines(i) :
                    (mw.messages[j].kind = "pass") <=> Verifies(mw.entries[i])

----------------------------------------------------------------------------
(* The claims about verify_transparency_entry, checked under SpecEntry *)

\* the message of the first field check, in the order log_id, entry_id,
\* tree_size, inclusion_proof, that the entry in mw fails; "" when it fails
\* none
FirstFieldError ==
    IF ~Truthy(mw.entry.log_id) THEN "Missing log_id in transparency entry"
    ELSE IF mw.entry.log_id.t = "str" /\ Len(mw.entry.log_id.s) > 256
         THEN "log_id too long"
    ELSE IF mw.entry.entry_id.t = "none" THEN "Missing entry_id in transparency entry"
    ELSE IF mw.entry.entry_id.t = "str" /\ Len(mw.entry.entry_id.s) > 128
         THEN "entry_id too long"
    ELSE IF mw.entry.tree_size.t # "int" \/ mw.entry.tree_size.n <= 0
         THEN "Invalid tree_size"
    ELSE IF ~ProofTruthy(mw.entry.inclusion_proof) THEN "Missing inclusion_proof"
    ELSE ""

\* the field checks ran to their end and none failed
PassesFieldChecks == FirstFieldError = "" /\ mw.entry.log_id.t = "str"

Accepted == mw.verdict = Verdict(TRUE, <<>>)

\* C23: when log_id is missing or too long, entry_id is missing or too
\* long, tree_size is not a positive integer or inclusion_proof is missing,
\* verify_transparency_entry returns (False, errors) where errors holds the
\* message of the first of those checks that fails, and nothing else.
FieldChecksReported ==
    (mw.op = "entry_done" /\ FirstFieldError # "")
        => mw.verdict = Verdict(FALSE, <<FirstFieldError>>)

\* C24: an entry that passes the field checks and whose inclusion_proof
\* ends with "..." is accepted with (True, []) whatever its other fields,
\* the leaf data and verify_proofs are; an entry that fails a field check
\* is not accepted although its proof ends with "...".
PlaceholderAccepted ==
    (mw.op = "entry_done" /\ mw.entry.inclusion_proof.t = "str"
                          /\ mw.entry.inclusion_proof.ellipsis)
        => /\ PassesFieldChecks => Accepted
           /\ FirstFieldError # "" => ~(mw.verdict.exc = "none" /\ mw.verdict.ok)

\* a placeholder proof was accepted by a verifier that verifies proofs, for
\* an entry with the root of another log and leaf data of another operation
PlaceholderAcceptedWitness ==
    /\ mw.op = "entry_done"
    /\ mw.entry.inclusion_proof.t = "str" /\ mw.entry.inclusion_proof.ellipsis
    /\ mw.verify_proofs
    /\ mw.entry.root_hash = RootBytes(MTH(<<"first entry", "another entry">>))
    /\ mw.leaf_data # LEAF_DATA
    /\ Accepted

\* the inclusion_proof of the entry in mw is base64 text of a byte length
\* that is a multiple of 32
DecodesToNodes ==
    /\ mw.entry.inclusion_proof.t = "str"
    /\ mw.entry.inclusion_proof.valid
    /\ SumLen(mw.entry.inclusion_proof.chunks) % 32 = 0

\* C27 as stated: an entry that passes the field checks, has no root_hash
\* and whose inclusion_proof decodes to a multiple of 32 bytes is accepted
\* with (True, []).
NoRootAcceptedAsStated ==
    (mw.op = "entry_done" /\ PassesFieldChecks /\ mw.entry.root_hash.t = "none"
                          /\ DecodesToNodes)
        => Accepted

\* C27, amended: an entry that passes the field checks, has no root_hash
\* and whose inclusion_proof decodes to a multiple of 32 bytes, at most
\* MAX_PROOF_LENGTH of them, is accepted with (True, []), whatever
\* leaf_data, entry_id and tree_size are; a longer proof is refused.
NoRootAccepted ==
    (mw.op = "entry_done" /\ PassesFieldChecks /\ mw.entry.root_hash.t = "none"
                          /\ DecodesToNodes)
        => IF SumLen(mw.entry.inclusion_proof.chunks) <= MAX_PROOF_LENGTH
           THEN Accepted
           ELSE mw.verify_proofs => mw.verdict = Verdict(FALSE, <<"Proof too large">>)

\* an entry without root_hash was accepted by a verifier that verifies
\* proofs, its entry_id being no number and the leaf data another operation
NoRootAcceptedWitness ==
    /\ mw.op = "entry_done"
    /\ mw.verify_proofs
    /\ mw.entry.root_hash.t = "none"
    /\ mw.entry.entry_id = PyStr(<<"x", "y", "z">>)
    /\ mw.entry.inclusion_proof.chunks # <<>>
    /\ mw.leaf_data # LEAF_DATA
    /\ Accepted

====
